---------------------------- MODULE Spec2Model ----------------------------
(***************************************************************************)
(* Model of the metadata caching layer of D-Model-Runner:                  *)
(*   - ConversationIndexCache (src/dmr/storage/index_cache.py) as driven   *)
(*     by ConversationManager (src/dmr/storage/conversation.py), over a    *)
(*     directory of documents that other processes may change;             *)
(*   - ConfigManager (src/dmr/config/manager.py) with EnvironmentHandler   *)
(*     (src/dmr/config/env.py) and merge_configs / safe_get_nested         *)
(*     (src/dmr/utils/helpers.py).                                         *)
(* Spec is the index cache, SpecCfg the configuration manager.             *)
(***************************************************************************)
EXTENDS Integers, Sequences, FiniteSets, TLC

(***************************************************************************)
(* Bounds of the model and program constants.                              *)
(***************************************************************************)
\* Last instant of the wall clock (seconds).
MaxTime == 31
\* Latest second an updated_at timestamp of a document may name.
MaxSec == 2
\* index_cache.py:301: the staleness check runs when more than 30 s passed.
RefreshInterval == 30
\* manager.py:275: the environment is re-scanned after more than 30 s.
EnvTtl == 30

\* The clock advances by one refresh interval, or by a second more.
TickSteps == {RefreshInterval, RefreshInterval + 1}

\* Conversation ids: the stems of the <id>.json files of the directory.
Ids == {"c1", "c2"}

(***************************************************************************)
(* Strings as sequences of characters: what lower() and `in` act on.       *)
(***************************************************************************)
Lower(c) ==
  CASE c = "P" -> "p"
    [] c = "J" -> "j"
    [] c = "A" -> "a"
    [] OTHER -> c

LowerStr(s) == [i \in 1..Len(s) |-> Lower(s[i])]

\* Python's `q in s` for strings.
IsSubstring(q, s) ==
  \E i \in 0..(Len(s) - Len(q)) : \A j \in 1..Len(q) : s[i + j] = q[j]

TitlePython == <<"P", "y", "t", "h", "o", "n">>
TitleJava == <<"J", "a", "v", "a">>

Queries == { <<"p", "y", "t", "h", "o", "n">>, <<"J", "A">> }

(***************************************************************************)
(* Metadata records. updated_at is an ISO-8601 string: sec stands for its  *)
(* part down to the second, usec for the microseconds; isoformat() writes  *)
(* no fractional part when usec = 0.                                       *)
(***************************************************************************)
Bodies ==
  { [title |-> TitlePython, description |-> <<>>, tags |-> <<>>,
     updated_at |-> [sec |-> 1, usec |-> 1]],
    [title |-> TitleJava, description |-> <<>>, tags |-> <<TitlePython>>,
     updated_at |-> [sec |-> MaxSec, usec |-> 0]] }

MakeRecord(id, body) ==
  [id |-> id, title |-> body.title, description |-> body.description,
   tags |-> body.tags, updated_at |-> body.updated_at]

\* What a file that does not parse stands for in the rec field (never read).
NoRecord(id) == MakeRecord(id, CHOOSE b \in Bodies : b.title = TitlePython)

\* String order of two isoformat() timestamps: a < b.
IsoLess(a, b) ==
  \/ a.sec < b.sec
  \/ a.sec = b.sec /\ a.usec < b.usec


(***************************************************************************)
(* State.                                                                  *)
(***************************************************************************)
VARIABLES
  now,             \* time.time(), in seconds
  files,           \* the directory: id -> [kind, rec, mtime] of <id>.json
  metadata_cache,  \* ConversationIndexCache._metadata_cache
  file_mtimes,     \* ConversationIndexCache._file_mtimes
  last_scan_time,  \* ConversationIndexCache._last_scan_time
  sidecar,         \* .conversation_index.json: <<>> or <<its content>>
  pc,              \* "idle", or "saving" inside save_conversation
  pending,         \* the record save_conversation is writing
  op,              \* the operation that ran last: [name, id, q, check, at]
  prev,            \* the operation before it: an update, an invalidate, a
                   \* read that ran the full staleness check, or another
  rebuilds,        \* _build_cache_from_files runs during the last operation
  result,          \* what the last list/search call returned (or raised)
  extChange,       \* time of the last change by another process
  goneCached       \* ids deleted by another process while cached, not re-created

cacheVars ==
  <<now, files, metadata_cache, file_mtimes, last_scan_time, sidecar, pc,
    pending, op, prev, rebuilds, result, extChange, goneCached>>

\* The empty dict.
EmptyMap == [i \in {} |-> 0]

\* d with key k set to v (d[k] = v).
DictSet(d, k, v) == [i \in (DOMAIN d) \cup {k} |-> IF i = k THEN v ELSE d[i]]

\* d.pop(k, None).
DictPop(d, k) == [i \in (DOMAIN d) \ {k} |-> d[i]]

NoResult == [ok |-> TRUE, list |-> <<>>]

\* Mutant of ExtractMetadata: a file that does not parse still yields a record.
ExtractAnything(file) == <<file.rec>>

(***************************************************************************)
(* _extract_metadata_from_file: the record of a parseable document, None   *)
(* (the empty sequence here) for invalid JSON or missing fields.           *)
(***************************************************************************)
ExtractMetadata(file) ==
  IF file.kind = "doc" THEN <<file.rec>> ELSE <<>>

\* Mutant of IsCacheStale: the mtime comparison is left out.
IsCacheStaleNoMtime(mtimes) ==
  \/ \E id \in DOMAIN mtimes : id \notin DOMAIN files
  \/ \E id \in DOMAIN files : id \notin DOMAIN mtimes

(***************************************************************************)
(* _is_cache_stale: first the cached ids (file gone, or newer on disk),    *)
(* then the directory listing (a file the cache does not know).            *)
(***************************************************************************)
IsCacheStale(mtimes) ==
  \/ \E id \in DOMAIN mtimes :
       IF id \in DOMAIN files THEN files[id].mtime > mtimes[id] ELSE TRUE
  \/ \E id \in DOMAIN files : id \notin DOMAIN mtimes

(***************************************************************************)
(* _build_cache_from_files: both maps cleared, then one entry per file     *)
(* whose metadata could be extracted; last_scan_time stamped.              *)
(***************************************************************************)
Scanned == { id \in DOMAIN files : ExtractMetadata(files[id]) # <<>> }

\* Mutant of BuildCache: last_scan_time is not stamped.
BuildCacheNoStamp ==
  [ metadata |-> [id \in Scanned |-> ExtractMetadata(files[id])[1]],
    mtimes |-> [id \in Scanned |-> files[id].mtime],
    last_scan_time |-> last_scan_time ]

\* Mutant of BuildCache: the maps are not cleared before the scan.
BuildCacheNoClear ==
  [ metadata |-> [id \in Scanned \cup DOMAIN metadata_cache |->
                   IF id \in Scanned THEN ExtractMetadata(files[id])[1]
                   ELSE metadata_cache[id]],
    mtimes |-> [id \in Scanned \cup DOMAIN file_mtimes |->
                 IF id \in Scanned THEN files[id].mtime ELSE file_mtimes[id]],
    last_scan_time |-> now ]

\* Mutant of BuildCache: the time of the scan is recorded as each file's mtime.
BuildCacheScanTime ==
  [ metadata |-> [id \in Scanned |-> ExtractMetadata(files[id])[1]],
    mtimes |-> [id \in Scanned |-> now],
    last_scan_time |-> now ]

BuildCache ==
  [ metadata |-> [id \in Scanned |-> ExtractMetadata(files[id])[1]],
    mtimes |-> [id \in Scanned |-> files[id].mtime],
    last_scan_time |-> now ]

CurrentState ==
  [ metadata |-> metadata_cache, mtimes |-> file_mtimes,
    last_scan_time |-> last_scan_time ]

\* _save_cache_file after the state became st.
Install(st) ==
  /\ metadata_cache' = st.metadata
  /\ file_mtimes' = st.mtimes
  /\ last_scan_time' = st.last_scan_time

(***************************************************************************)
(* _refresh_if_needed: the throttle, then the staleness check.             *)
(***************************************************************************)
RefreshDue == now - last_scan_time > RefreshInterval

RefreshNeeded == RefreshDue /\ IsCacheStale(file_mtimes)

\* The state a read call answers from, and the sidecar it leaves.
Refreshed == IF RefreshNeeded THEN BuildCache ELSE CurrentState

RefreshedSidecar == IF RefreshNeeded THEN <<BuildCache>> ELSE sidecar


(***************************************************************************)
(* get_all_metadata: the cached records, updated_at descending. The sort   *)
(* is stable over the dict's insertion order, which the model does not     *)
(* keep: records with equal updated_at come in either order.               *)
(***************************************************************************)
Range(seq) == { seq[i] : i \in DOMAIN seq }

Values(d) == { d[k] : k \in DOMAIN d }

\* The sequences that list every element of S once.
Arrangements(S) ==
  { seq \in [1..Cardinality(S) -> S] : Range(seq) = S }

NewerFirst(a, b) == IsoLess(b.updated_at, a.updated_at)

AllMetadata(st) ==
  { seq \in Arrangements(Values(st.metadata)) :
      \A i, j \in DOMAIN seq : i < j => ~NewerFirst(seq[j], seq[i]) }

(***************************************************************************)
(* search_metadata with search_content = False: the match, the sort key    *)
(* (not title_match, -mktime(strptime(updated_at, '...%S.%f'))) and the    *)
(* ValueError strptime raises for a timestamp without fractional part.     *)
(***************************************************************************)
TitleMatch(q, r) == IsSubstring(LowerStr(q), LowerStr(r.title))

Matches(q, r) ==
  \/ TitleMatch(q, r)
  \/ IsSubstring(LowerStr(q), LowerStr(r.description))
  \/ \E i \in DOMAIN r.tags : IsSubstring(LowerStr(q), LowerStr(r.tags[i]))

SearchBefore(q, a, b) ==
  \/ TitleMatch(q, a) /\ ~TitleMatch(q, b)
  \/ /\ TitleMatch(q, a) = TitleMatch(q, b)
     /\ a.updated_at.sec > b.updated_at.sec

Hits(q, st) == { r \in Values(st.metadata) : Matches(q, r) }

SortKeyRaises(S) == \E r \in S : r.updated_at.usec = 0

SearchResults(q, st) ==
  IF SortKeyRaises(Hits(q, st))
  THEN { [ok |-> FALSE, list |-> <<>>] }
  ELSE { [ok |-> TRUE, list |-> seq] :
           seq \in { p \in Arrangements(Hits(q, st)) :
                      \A i, j \in DOMAIN p : i < j => ~SearchBefore(q, p[j], p[i]) } }

(***************************************************************************)
(* update_conversation_metadata and remove_conversation.                   *)
(***************************************************************************)
\* Mutant of Updated: the record is not stored.
UpdatedNoInsert(id, rec) ==
  [ metadata |-> metadata_cache,
    mtimes |-> IF id \in DOMAIN files
               THEN DictSet(file_mtimes, id, files[id].mtime)
               ELSE file_mtimes,
    last_scan_time |-> last_scan_time ]

Updated(id, rec) ==
  [ metadata |-> DictSet(metadata_cache, id, rec),
    mtimes |-> IF id \in DOMAIN files
               THEN DictSet(file_mtimes, id, files[id].mtime)
               ELSE file_mtimes,
    last_scan_time |-> last_scan_time ]

Removed(id) ==
  [ metadata |-> DictPop(metadata_cache, id),
    mtimes |-> DictPop(file_mtimes, id),
    last_scan_time |-> last_scan_time ]

(***************************************************************************)
(* _load_or_build_cache / _load_cache_file: the sidecar is adopted unless  *)
(* it is missing or stale against the directory.                           *)
(***************************************************************************)
\* What the sidecar holds when it is not the JSON the cache wrote (cut
\* short, overwritten): json.load raises.
Garbled == [garbled |-> TRUE]

SidecarReadable == sidecar # <<>> /\ sidecar[1] # Garbled

\* Mutant of LoadNeedsBuild: a sidecar that can be read is trusted.
LoadNeedsBuildUnlessReadable == ~SidecarReadable

LoadNeedsBuild ==
  IF SidecarReadable THEN IsCacheStale(sidecar[1].mtimes) ELSE TRUE

Loaded == IF LoadNeedsBuild THEN BuildCache ELSE sidecar[1]

(***************************************************************************)
(* History kept for the properties: what the last operation was, and what  *)
(* its staleness check had before it: "throttled" (no check ran), "mtime"  *)
(* (a cached document is newer on disk), "drift" (the directory differs    *)
(* from the cached mtimes otherwise) or "fresh".                           *)
(***************************************************************************)
DirMtimes == [id \in DOMAIN files |-> files[id].mtime]

MtimeAdvanced ==
  \E id \in (DOMAIN file_mtimes) \cap (DOMAIN files) :
    files[id].mtime > file_mtimes[id]

CheckSeen ==
  IF now - last_scan_time <= RefreshInterval THEN "throttled"
  ELSE IF MtimeAdvanced THEN "mtime"
  ELSE IF DirMtimes # file_mtimes THEN "drift"
  ELSE "fresh"

Ran(name, id, q, check) ==
  /\ op' = [name |-> name, id |-> id, q |-> q, check |-> check,
            at |-> IF name = "other" THEN 0 ELSE now]
  /\ prev' = IF op.name \in {"update", "invalidate"} THEN op.name
             ELSE IF op.name \in {"list", "search"} /\ op.check # "throttled"
                  THEN "check"
                  ELSE "other"

Other == Ran("other", "", <<>>, "")

(***************************************************************************)
(* Actions of the index cache.                                             *)
(***************************************************************************)
\* Time passes between two calls (not inside save_conversation). A result
\* read before belongs to the past.
Tick ==
  /\ pc = "idle"
  /\ \E d \in TickSteps : now + d <= MaxTime /\ now' = now + d
  /\ IF op.name \in {"list", "search"}
     THEN Other /\ result' = NoResult /\ rebuilds' = 0
     ELSE UNCHANGED <<op, prev, result, rebuilds>>
  /\ UNCHANGED <<files, metadata_cache, file_mtimes, last_scan_time, sidecar,
                 pc, pending, extChange, goneCached>>

\* The pending record outlives save_conversation only as history.
PendingKept == pending' = IF pc = "saving" THEN pending ELSE <<>>

\* The mtime the cache holds for id, if any.
CachedMtime(id) ==
  IF id \in DOMAIN file_mtimes THEN file_mtimes[id] ELSE -1

\* Another process (or a hand) writes <id>.json; its mtime is later than
\* any the cache has seen for the id.
ExternalWrite ==
  /\ \E id \in Ids, kind \in {"doc", "corrupt"} :
       /\ now > CachedMtime(id)
       /\ \E rec \in IF kind = "doc"
                     THEN { MakeRecord(id, b) : b \in Bodies }
                     ELSE { NoRecord(id) } :
            files' = DictSet(files, id, [kind |-> kind, rec |-> rec, mtime |-> now])
       /\ goneCached' = goneCached \ {id}
  /\ Other
  /\ PendingKept
  /\ extChange' = now
  /\ rebuilds' = 0
  /\ result' = NoResult
  /\ UNCHANGED <<now, metadata_cache, file_mtimes, last_scan_time, sidecar, pc>>

\* Another process deletes <id>.json.
ExternalDelete ==
  /\ \E id \in DOMAIN files :
       /\ files' = DictPop(files, id)
       /\ goneCached' = IF id \in DOMAIN metadata_cache
                        THEN goneCached \cup {id} ELSE goneCached
  /\ Other
  /\ PendingKept
  /\ extChange' = now
  /\ rebuilds' = 0
  /\ result' = NoResult
  /\ UNCHANGED <<now, metadata_cache, file_mtimes, last_scan_time, sidecar, pc>>

\* Another process deletes the sidecar file.
ExternalDeleteSidecar ==
  /\ sidecar # <<>>
  /\ sidecar' = <<>>
  /\ Other
  /\ PendingKept
  /\ rebuilds' = 0
  /\ result' = NoResult
  /\ UNCHANGED <<now, files, metadata_cache, file_mtimes, last_scan_time, pc,
                 extChange, goneCached>>

\* save_conversation, first half: conversation.save(file_path).
SaveWrite ==
  /\ pc = "idle"
  /\ \E id \in Ids, b \in Bodies :
       /\ files' = DictSet(files, id,
                     [kind |-> "doc", rec |-> MakeRecord(id, b), mtime |-> now])
       /\ pending' = <<MakeRecord(id, b)>>
       /\ goneCached' = goneCached \ {id}
  /\ Other
  /\ pc' = "saving"
  /\ rebuilds' = 0
  /\ result' = NoResult
  /\ UNCHANGED <<now, metadata_cache, file_mtimes, last_scan_time, sidecar, extChange>>

\* save_conversation, second half: update_conversation_metadata(id, metadata).
SaveIndex ==
  /\ pc = "saving"
  /\ LET rec == pending[1] IN
       /\ Install(Updated(rec.id, rec))
       /\ sidecar' = <<Updated(rec.id, rec)>>
       /\ Ran("update", rec.id, <<>>, "")
  /\ pc' = "idle"
  /\ rebuilds' = 0
  /\ result' = NoResult
  /\ UNCHANGED <<now, files, pending, extChange, goneCached>>

\* delete_conversation: unlink the file if it exists, remove_conversation(id).
DeleteConversation ==
  /\ pc = "idle"
  /\ \E id \in Ids :
       /\ files' = DictPop(files, id)
       /\ Install(Removed(id))
       /\ sidecar' = <<Removed(id)>>
       /\ goneCached' = goneCached \ {id}
  /\ Other
  /\ pending' = <<>>
  /\ rebuilds' = 0
  /\ result' = NoResult
  /\ UNCHANGED <<now, pc, extChange>>

\* list_conversations: get_all_metadata.
ListConversations ==
  /\ pc = "idle"
  /\ Install(Refreshed)
  /\ sidecar' = RefreshedSidecar
  /\ rebuilds' = IF RefreshNeeded THEN 1 ELSE 0
  /\ \E seq \in AllMetadata(Refreshed) : result' = [ok |-> TRUE, list |-> seq]
  /\ Ran("list", "", <<>>, CheckSeen)
  /\ UNCHANGED <<now, files, pc, pending, extChange, goneCached>>

\* search_conversations(query): search_metadata(query, False).
SearchConversations ==
  /\ pc = "idle"
  /\ Install(Refreshed)
  /\ sidecar' = RefreshedSidecar
  /\ rebuilds' = IF RefreshNeeded THEN 1 ELSE 0
  /\ \E q \in Queries :
       /\ result' \in SearchResults(q, Refreshed)
       /\ Ran("search", "", q, CheckSeen)
  /\ UNCHANGED <<now, files, pc, pending, extChange, goneCached>>

\* invalidate_cache: _build_cache_from_files, at once.
InvalidateCache ==
  /\ pc = "idle"
  /\ Install(BuildCache)
  /\ sidecar' = <<BuildCache>>
  /\ rebuilds' = 1
  /\ result' = NoResult
  /\ Ran("invalidate", "", <<>>, "")
  /\ pending' = <<>>
  /\ UNCHANGED <<now, files, pc, extChange, goneCached>>

\* Another process overwrites the sidecar file with something that is not
\* its JSON.
ExternalGarbleSidecar ==
  /\ sidecar # <<Garbled>>
  /\ sidecar' = <<Garbled>>
  /\ Other
  /\ PendingKept
  /\ rebuilds' = 0
  /\ result' = NoResult
  /\ UNCHANGED <<now, files, metadata_cache, file_mtimes, last_scan_time, pc,
                 extChange, goneCached>>

\* The process starts again: ConversationIndexCache.__init__.
Restart ==
  /\ pc = "idle"
  /\ Install(Loaded)
  /\ sidecar' = IF LoadNeedsBuild THEN <<BuildCache>> ELSE sidecar
  /\ rebuilds' = IF LoadNeedsBuild THEN 1 ELSE 0
  /\ result' = NoResult
  /\ Ran("init", "", <<>>, "")
  /\ pending' = <<>>
  /\ UNCHANGED <<now, files, pc, extChange, goneCached>>

(***************************************************************************)
(* The configuration manager (src/dmr/config/manager.py).                  *)
(*                                                                         *)
(* A configuration tree is a function from paths (sequences of keys) to    *)
(* nodes: a mapping node at every inner path, a scalar at the leaves.      *)
(***************************************************************************)
VARIABLES
  environ,         \* os.environ, DMR_* only: cleaned key -> text
  cfg_files,       \* configuration files on disk: path -> [kind, tree, mtime]
  config,          \* ConfigManager._config
  profile,         \* ConfigManager._profile
  loaded,          \* ConfigManager._loaded
  file_cache,      \* ConfigManager._file_cache: path -> [config, mtime]
  profile_cache,   \* ConfigManager._profile_cache: profile -> <<>> (None) or <<tree>>
  cache_valid,     \* ConfigManager._cache_valid
  last_env_check,  \* ConfigManager._last_env_check
  env_cache,       \* ConfigManager._env_cache: <<>> (None) or <<tree>>
  cop,             \* the configuration call that ran last
  got,             \* what the last get() returned
  layers,          \* the four layers merged into config, lowest first
  missed           \* profiles a load found no file for, since the caches were last emptied

cfgVars ==
  <<environ, cfg_files, config, profile, loaded, file_cache, profile_cache,
    cache_valid, last_env_check, env_cache, cop, got, layers, missed>>

\* Nodes of a tree.
MapV == [t |-> "map"]
IntV(n) == [t |-> "int", n |-> n]
StrV(s) == [t |-> "str", s |-> s]
BoolV(b) == [t |-> "bool", b |-> b]
\* Python's None.
NoneV == [t |-> "none"]

\* The dict {}.
EmptyTree == [p \in {} |-> MapV]

\* The proper prefixes of a path.
Prefixes(p) == { SubSeq(p, 1, i) : i \in 1..(Len(p) - 1) }

\* The nested dict holding the given leaves.
TreeOf(leaves) ==
  LET inner == UNION { Prefixes(p) : p \in DOMAIN leaves }
  IN  [p \in inner \cup DOMAIN leaves |->
         IF p \in DOMAIN leaves THEN leaves[p] ELSE MapV]

\* isinstance(tree[p], dict), for a key that is present.
IsDict(tree, p) == p \in DOMAIN tree /\ tree[p].t = "map"

\* The paths the model follows.
PApi == <<"api">>
PBaseUrl == <<"api", "base_url">>
PMaxTokens == <<"api", "models", "defaults", "max_tokens">>
PEnvMaxTokens == <<"api", "models", "max_tokens">>
PLogging == <<"logging">>
PLogLevel == <<"logging", "level">>

\* helpers.py merge_configs: which operand decides path p, given that the
\* operands are both dicts down to the i-th key of p.
RECURSIVE MergeSource(_, _, _, _)
MergeSource(base_config, override_config, p, i) ==
  LET key == SubSeq(p, 1, i)
  IN  IF key \notin DOMAIN override_config THEN "base"
      ELSE IF IsDict(base_config, key) /\ IsDict(override_config, key)
           THEN IF i < Len(p)
                THEN MergeSource(base_config, override_config, p, i + 1)
                ELSE "both"
           ELSE "override"

\* A merge in which the base operand wins wherever both hold a scalar.
MergeConfigsBaseWins(base_config, override_config) ==
  LET src(p) == MergeSource(override_config, base_config, p, 1)
      kept == { p \in DOMAIN base_config \cup DOMAIN override_config :
                  \/ src(p) = "both"
                  \/ src(p) = "base" /\ p \in DOMAIN override_config
                  \/ src(p) = "override" /\ p \in DOMAIN base_config }
  IN  [p \in kept |-> IF src(p) = "base" THEN override_config[p]
                      ELSE base_config[p]]

\* helpers.py merge_configs.
MergeConfigs(base_config, override_config) ==
  LET src(p) == MergeSource(base_config, override_config, p, 1)
      kept == { p \in DOMAIN base_config \cup DOMAIN override_config :
                  \/ src(p) = "both"
                  \/ src(p) = "base" /\ p \in DOMAIN base_config
                  \/ src(p) = "override" /\ p \in DOMAIN override_config }
  IN  [p \in kept |-> IF src(p) = "base" THEN base_config[p]
                      ELSE override_config[p]]

\* helpers.py safe_get_nested: current = current[key] key by key; a missing
\* key (KeyError) or a scalar on the way (TypeError) gives the default.
RECURSIVE SafeGetNestedFrom(_, _, _, _)
SafeGetNestedFrom(data, path, default, i) ==
  IF i > Len(path) THEN data[path]
  ELSE IF SubSeq(path, 1, i) \in DOMAIN data
       THEN SafeGetNestedFrom(data, path, default, i + 1)
       ELSE default

\* Mutant of SafeGetNested: None is returned whatever default is given.
SafeGetNestedNone(data, path, default) == SafeGetNestedFrom(data, path, NoneV, 1)

SafeGetNested(data, path, default) == SafeGetNestedFrom(data, path, default, 1)

\* parser.py validate_config_structure: TRUE where it returns, FALSE where
\* it raises ValueError.
ValidateConfigStructure(tree) ==
  /\ PApi \in DOMAIN tree
  /\ tree[PApi].t = "map"
  /\ PBaseUrl \in DOMAIN tree

\* manager.py: the built-in default configuration (the keys the layers of
\* the model touch).
BuiltinDefaults ==
  TreeOf((PBaseUrl :> StrV("http://localhost:12434/engines/llama.cpp/v1/"))
         @@ (PMaxTokens :> IntV(500))
         @@ (PLogLevel :> StrV("INFO")))

\* Contents of config/default.yaml: max_tokens 400, under the model defaults
\* and under api.models, the key the environment mapping writes.
DefaultFile400 ==
  TreeOf((PMaxTokens :> IntV(400)) @@ (PEnvMaxTokens :> IntV(400)))
DefaultFileTrees == { DefaultFile400 }

\* Contents of a profile file: an override of max_tokens, `logging: false`,
\* and `api: off`.
Profile300 == TreeOf(PMaxTokens :> IntV(300))
ProfileLoggingOff == TreeOf(PLogging :> BoolV(FALSE))
ProfileApiOff == TreeOf(PApi :> StrV("off"))
ProfileTrees == { Profile300, ProfileLoggingOff, ProfileApiOff }

Profiles == {"default", "dev"}

\* config_dir / "default.yaml".
DefaultFile == <<"config", "default", "yaml">>

\* The candidate files of a profile, in the order they are tried.
ProfileFiles(p) ==
  << <<"config/profiles", p, "yaml">>, <<"config/profiles", p, "yml">>,
     <<"dmr/config/profiles", p, "yaml">>, <<"dmr/config/profiles", p, "yml">> >>

\* The files other processes write in the model.
WritableFiles == { DefaultFile, ProfileFiles("dev")[1] }

FileTrees(f) == IF f = DefaultFile THEN DefaultFileTrees ELSE ProfileTrees

\* The files that are given text that does not parse.
UnparseableFiles == { DefaultFile }

\* The environment variable of the model, DMR_MAX_TOKENS (prefix removed,
\* lowercased), and the text it is set to.
EnvText == ("max_tokens" :> "200")
EnvKeys == DOMAIN EnvText

\* The texts environment variables are given where the conversion itself
\* is looked at.
EnvTexts == { "true", "TRUE", "1", "Yes", "on", "false", "0", "abc", "200" }

\* str.lower() on these texts.
LowerText(text) ==
  CASE text = "TRUE" -> "true"
    [] text = "Yes" -> "yes"
    [] OTHER -> text

\* int(text) on these texts: <<n>>, or <<>> where it raises ValueError.
\* float(text) parses the same texts.
IntOf(text) ==
  CASE text = "0" -> <<0>>
    [] text = "1" -> <<1>>
    [] text = "200" -> <<200>>
    [] OTHER -> <<>>

FloatV(n) == [t |-> "float", n |-> n]

\* The texts _convert_env_value takes for true.
TrueTexts == { "true", "1", "yes", "on" }

TargetTypes == { "str", "bool", "int", "float" }

\* env.py _convert_env_value(value, target_type).
ConvertEnvValue(text, target_type) ==
  CASE target_type = "str" -> StrV(text)
    [] target_type = "bool" -> BoolV(LowerText(text) \in TrueTexts)
    [] target_type = "int" ->
         IF IntOf(text) # <<>> THEN IntV(IntOf(text)[1]) ELSE IntV(0)
    [] target_type = "float" ->
         IF IntOf(text) # <<>> THEN FloatV(IntOf(text)[1]) ELSE FloatV(0)

\* env.py load_env_vars: _convert_env_value(value) is called with its
\* default target_type, str.
LoadEnvVars(env) == [k \in DOMAIN env |-> ConvertEnvValue(env[k], "str")]

PDebug == <<"logging", "debug">>

\* env.py get_config_overrides: the mapping from variables to paths.
EnvMapping ==
  ("base_url" :> PBaseUrl) @@ ("api_key" :> <<"api", "key">>)
  @@ ("default_model" :> <<"api", "models", "default">>)
  @@ ("max_tokens" :> PEnvMaxTokens)
  @@ ("temperature" :> <<"api", "models", "temperature">>)
  @@ ("debug" :> PDebug) @@ ("log_level" :> PLogLevel)

\* env.py get_config_overrides.
GetConfigOverrides(env) ==
  LET env_vars == LoadEnvVars(env)
      set == { k \in DOMAIN EnvMapping : k \in DOMAIN env_vars }
  IN  TreeOf([p \in { EnvMapping[k] : k \in set } |->
                env_vars[CHOOSE k \in set : EnvMapping[k] = p]])

\* `if config:` is false for None and for the empty dict.
Truthy(c) == c # <<>> /\ DOMAIN c[1] # {}

\* manager.py _files_changed.
FilesChanged ==
  \E f \in DOMAIN file_cache :
    \/ f \notin DOMAIN cfg_files
    \/ cfg_files[f].mtime > file_cache[f].mtime

\* manager.py _get_cached_file_config: the config it returns (<<>> for None)
\* and the file cache it leaves.
GetCachedFileConfig(fc, f) ==
  IF f \in DOMAIN cfg_files
  THEN LET current_mtime == cfg_files[f].mtime
       IN  IF f \in DOMAIN fc /\ fc[f].mtime >= current_mtime
           THEN [cfg |-> <<fc[f].config>>, fc |-> fc]
           ELSE IF cfg_files[f].kind = "yaml"
                THEN [cfg |-> <<cfg_files[f].tree>>,
                      fc |-> DictSet(fc, f, [config |-> cfg_files[f].tree,
                                             mtime |-> current_mtime])]
                ELSE [cfg |-> <<>>, fc |-> fc]
  ELSE [cfg |-> <<>>, fc |-> fc]

\* manager.py _load_default_config_cached.
LoadDefaultConfigCached(fc) ==
  LET r == GetCachedFileConfig(fc, DefaultFile)
  IN  IF Truthy(r.cfg)
      THEN [config |-> MergeConfigs(BuiltinDefaults, r.cfg[1]),
            layer |-> r.cfg[1], fc |-> r.fc]
      ELSE [config |-> BuiltinDefaults, layer |-> EmptyTree, fc |-> r.fc]

\* manager.py _load_profile_config_cached: the loop over the candidates.
RECURSIVE FirstProfileConfig(_, _, _)
FirstProfileConfig(p, fc, i) ==
  IF i > Len(ProfileFiles(p)) THEN [cfg |-> <<>>, fc |-> fc, probes |-> i - 1]
  ELSE LET r == GetCachedFileConfig(fc, ProfileFiles(p)[i])
       IN  IF Truthy(r.cfg) THEN [cfg |-> r.cfg, fc |-> r.fc, probes |-> i]
           ELSE FirstProfileConfig(p, r.fc, i + 1)

\* A profile cache that remembers the profiles found, not the ones missing.
LoadProfileConfigNoNegative(p, fc, pcache) ==
  IF p = "default"
  THEN [cfg |-> <<>>, fc |-> fc, pcache |-> pcache, probes |-> 0]
  ELSE IF p \in DOMAIN pcache /\ pcache[p] # <<>>
       THEN [cfg |-> pcache[p], fc |-> fc, pcache |-> pcache, probes |-> 0]
       ELSE LET r == FirstProfileConfig(p, fc, 1)
            IN  [cfg |-> r.cfg, fc |-> r.fc,
                 pcache |-> DictSet(pcache, p, r.cfg), probes |-> r.probes]

\* manager.py _load_profile_config_cached; probes counts the candidate
\* files it looked for on disk.
LoadProfileConfigCached(p, fc, pcache) ==
  IF p = "default"
  THEN [cfg |-> <<>>, fc |-> fc, pcache |-> pcache, probes |-> 0]
  ELSE IF p \in DOMAIN pcache
       THEN [cfg |-> pcache[p], fc |-> fc, pcache |-> pcache, probes |-> 0]
       ELSE LET r == FirstProfileConfig(p, fc, 1)
            IN  [cfg |-> r.cfg, fc |-> r.fc,
                 pcache |-> DictSet(pcache, p, r.cfg), probes |-> r.probes]

\* manager.py _get_env_overrides_cached: the environment is scanned again.
EnvRefreshDue == env_cache = <<>> \/ now - last_env_check > EnvTtl

\* manager.py _get_env_overrides_cached: the overrides it returns.
GetEnvOverridesCached ==
  IF EnvRefreshDue THEN GetConfigOverrides(environ) ELSE env_cache[1]

\* manager.py load_config: the cached tree is returned as it is.
ServedFromCache(p, reload) ==
  loaded /\ ~reload /\ profile = p /\ cache_valid /\ ~FilesChanged

\* manager.py load_config, lines 66-75: the merge of the default
\* configuration d, the profile configuration pr and the environment
\* overrides, and its validation.
MergeLayers(d, pr, env_overrides) ==
  LET withProfile == IF Truthy(pr.cfg) THEN MergeConfigs(d.config, pr.cfg[1])
                     ELSE d.config
  IN  CHOOSE r \in
        { [config |-> merged, fc |-> pr.fc, pcache |-> pr.pcache,
           env |-> env_overrides, probes |-> pr.probes,
           layers |-> <<BuiltinDefaults, d.layer,
                        IF Truthy(pr.cfg) THEN pr.cfg[1] ELSE EmptyTree,
                        env_overrides>>,
           valid |-> ValidateConfigStructure(merged)] :
          merged \in { IF DOMAIN env_overrides # {}
                       THEN MergeConfigs(withProfile, env_overrides)
                       ELSE withProfile } } : TRUE

\* manager.py load_config, lines 59-75: the layers, each computed once, and
\* their merge.
Resolved(p) ==
  CHOOSE r \in
    UNION { { MergeLayers(d, pr, GetEnvOverridesCached) :
                pr \in {LoadProfileConfigCached(p, d.fc, profile_cache)} } :
            d \in {LoadDefaultConfigCached(file_cache)} } : TRUE

\* manager.py load_config: what it does to the manager, r being the
\* layers resolved for the profile.
LoadConfigStep(p, reload, r) ==
  IF ServedFromCache(p, reload)
  THEN UNCHANGED <<config, profile, loaded, file_cache, profile_cache,
                   cache_valid, last_env_check, env_cache, layers>>
  ELSE /\ profile' = p
       /\ file_cache' = r.fc
       /\ profile_cache' = r.pcache
       /\ env_cache' = <<r.env>>
       /\ last_env_check' = IF EnvRefreshDue THEN now ELSE last_env_check
       /\ IF r.valid
          THEN /\ config' = r.config
               /\ loaded' = TRUE
               /\ cache_valid' = TRUE
               /\ layers' = r.layers
          ELSE UNCHANGED <<config, loaded, cache_valid, layers>>

\* The variables whose override is in the merged tree but no longer in the
\* environment.
Dropped ==
  { k \in EnvKeys : EnvMapping[k] \in DOMAIN layers[4] /\ k \notin DOMAIN environ }

\* The record of a call: ok is FALSE where it raised, invalid says that
\* the merge of the call's layers fails validation, probes counts the
\* look-ups of profile files on disk, repeat says that an earlier load
\* found no file for the profile and the caches were not emptied since,
\* envdue that the environment was last scanned more than the TTL ago.
NoCall == [name |-> "init", path |-> <<>>, ok |-> TRUE, dropped |-> {},
           invalid |-> FALSE, probes |-> 0, repeat |-> FALSE,
           envdue |-> FALSE]

\* Something other than a call of the manager happened last.
Outside == [NoCall EXCEPT !.name = "other"]

\* The files of profile p now on disk.
ProfileFilesOnDisk(p) ==
  { i \in 1..Len(ProfileFiles(p)) : ProfileFiles(p)[i] \in DOMAIN cfg_files }

\* The profile files whose mtime _files_changed may read.
CachedProfileFiles(p) ==
  { i \in 1..Len(ProfileFiles(p)) : ProfileFiles(p)[i] \in DOMAIN file_cache }

\* The look-ups of profile files a load_config(p, reload) makes: served
\* says that it returns the cached tree, probes counts the look-ups of
\* _load_profile_config_cached.
Probes(p, reload, served, probes) ==
  (IF loaded /\ ~reload /\ profile = p /\ cache_valid
   THEN Cardinality(CachedProfileFiles(p)) ELSE 0)
  + (IF served THEN 0 ELSE probes)

\* The profiles found to have no file, after load_config(p, reload).
Missed(p, served, probes) ==
  IF ~served /\ probes > 0 /\ ProfileFilesOnDisk(p) = {}
  THEN missed \cup {p} ELSE missed

\* The record of load_config(p, reload); valid says that the merge of its
\* layers passes validation.
LoadCall(name, p, reload, served, valid, probes) ==
  [name |-> name, path |-> <<>>,
   ok |-> served \/ valid,
   dropped |-> IF reload THEN Dropped ELSE {},
   invalid |-> ~valid,
   probes |-> Probes(p, reload, served, probes),
   repeat |-> p \in missed,
   envdue |-> now - last_env_check > EnvTtl]

\* ConfigManager.load_config(profile, reload).
LoadConfig ==
  \E p \in Profiles, reload \in BOOLEAN :
    \E r \in {Resolved(p)}, served \in {ServedFromCache(p, reload)} :
        /\ LoadConfigStep(p, reload, r)
        /\ cop' = LoadCall(IF reload THEN "reload" ELSE "load", p, reload,
                           served, r.valid, r.probes)
        /\ got' = NoneV
        /\ missed' = Missed(p, served, r.probes)
        /\ UNCHANGED <<now, environ, cfg_files>>

\* ConfigManager.reload_config().
ReloadConfig ==
  \E r \in {Resolved(profile)} :
      /\ LoadConfigStep(profile, TRUE, r)
      /\ cop' = LoadCall("reload", profile, TRUE, FALSE, r.valid, r.probes)
      /\ got' = NoneV
      /\ missed' = Missed(profile, FALSE, r.probes)
      /\ UNCHANGED <<now, environ, cfg_files>>

\* The paths get() is called with.
GetPaths == { PMaxTokens, PBaseUrl }

\* ConfigManager.get(path): loads the default profile first when nothing
\* is loaded; the default of get is None.
Get ==
  \E path \in GetPaths :
    /\ IF loaded
       THEN /\ UNCHANGED <<config, profile, loaded, file_cache, profile_cache,
                           cache_valid, last_env_check, env_cache, layers>>
            /\ got' = SafeGetNested(config, path, NoneV)
            /\ cop' = [NoCall EXCEPT !.name = "get", !.path = path]
       ELSE \E r \in {Resolved("default")} :
                /\ LoadConfigStep("default", FALSE, r)
                /\ got' = IF r.valid THEN SafeGetNested(r.config, path, NoneV)
                          ELSE NoneV
                /\ cop' = [NoCall EXCEPT !.name = "get", !.path = path,
                                         !.ok = r.valid, !.invalid = ~r.valid]
    /\ UNCHANGED <<now, environ, cfg_files, missed>>

\* ConfigManager.invalidate_cache().
InvalidateConfigCache ==
  /\ file_cache' = EmptyMap
  /\ profile_cache' = EmptyMap
  /\ env_cache' = <<>>
  /\ cache_valid' = FALSE
  /\ last_env_check' = 0
  /\ cop' = [NoCall EXCEPT !.name = "invalidate"]
  /\ got' = NoneV
  /\ missed' = {}
  /\ UNCHANGED <<now, environ, cfg_files, config, profile, loaded, layers>>

\* ConfigManager(config_dir): a new manager over the same files.
NewConfigManager ==
  /\ config' = EmptyTree
  /\ profile' = "default"
  /\ loaded' = FALSE
  /\ file_cache' = EmptyMap
  /\ profile_cache' = EmptyMap
  /\ cache_valid' = TRUE
  /\ last_env_check' = 0
  /\ env_cache' = <<>>
  /\ cop' = NoCall
  /\ got' = NoneV
  /\ layers' = <<EmptyTree, EmptyTree, EmptyTree, EmptyTree>>
  /\ missed' = {}
  /\ UNCHANGED <<now, environ, cfg_files>>

\* What a step outside the manager leaves of it: everything but the record
\* of its last call, which is no longer the last thing that happened.
ManagerIdle ==
  /\ cop' = Outside
  /\ got' = NoneV
  /\ UNCHANGED <<config, profile, loaded, file_cache, profile_cache,
                 cache_valid, last_env_check, env_cache, layers, missed>>

\* The environment of the process changes.
SetEnv ==
  \E k \in EnvKeys \ DOMAIN environ :
    /\ environ' = DictSet(environ, k, EnvText[k])
    /\ ManagerIdle
    /\ UNCHANGED <<now, cfg_files>>

UnsetEnv ==
  \E k \in DOMAIN environ :
    /\ environ' = DictPop(environ, k)
    /\ ManagerIdle
    /\ UNCHANGED <<now, cfg_files>>

\* The latest mtime of file f the manager or the disk has seen.
KnownMtime(f) ==
  LET onDisk == IF f \in DOMAIN cfg_files THEN cfg_files[f].mtime ELSE -1
      cached == IF f \in DOMAIN file_cache THEN file_cache[f].mtime ELSE -1
  IN  IF onDisk > cached THEN onDisk ELSE cached

\* The contents a file may be given: well-formed YAML, or text that does
\* not parse.
FileContents(f) ==
  [kind : {"yaml"}, tree : FileTrees(f), mtime : {now}]
  \cup (IF f \in UnparseableFiles
        THEN { [kind |-> "bad", tree |-> EmptyTree, mtime |-> now] } ELSE {})

\* A configuration file is written. Its mtime is later than any seen before.
WriteConfigFile ==
  \E f \in WritableFiles :
    /\ now > KnownMtime(f)
    /\ \E c \in FileContents(f) : cfg_files' = DictSet(cfg_files, f, c)
    /\ ManagerIdle
    /\ UNCHANGED <<now, environ>>

DeleteConfigFile ==
  \E f \in DOMAIN cfg_files :
    /\ cfg_files' = DictPop(cfg_files, f)
    /\ ManagerIdle
    /\ UNCHANGED <<now, environ>>

\* Time passes between two calls.
CfgTick ==
  /\ \E d \in TickSteps : now + d <= MaxTime /\ now' = now + d
  /\ ManagerIdle
  /\ UNCHANGED <<environ, cfg_files>>

\* ConfigManager(config_dir) in a process with no DMR_* variables, over a
\* directory with no configuration files.
CfgInit ==
  /\ environ = EmptyMap
  /\ cfg_files = EmptyMap
  /\ config = EmptyTree
  /\ profile = "default"
  /\ loaded = FALSE
  /\ file_cache = EmptyMap
  /\ profile_cache = EmptyMap
  /\ cache_valid = TRUE
  /\ last_env_check = 0
  /\ env_cache = <<>>
  /\ cop = NoCall
  /\ got = NoneV
  /\ layers = <<EmptyTree, EmptyTree, EmptyTree, EmptyTree>>
  /\ missed = {}

(***************************************************************************)
(* The index cache under threads. One ConversationIndexCache is shared by  *)
(* the threads of a process; each call runs statement by statement, and    *)
(* `with self._lock` is the only synchronisation. The maps, the directory  *)
(* and the clock are the variables declared above.                         *)
(***************************************************************************)
Threads == {1, 2}

\* The value of lock when no thread holds it.
NoThread == 0

\* The conversation a thread passes to update_conversation_metadata.
ThreadBody == CHOOSE b \in Bodies : b.title = TitleJava

VARIABLES
  lock,      \* ConversationIndexCache._lock: its holder, or NoThread
  tpc,       \* thread -> the statement it is about to run
  call,      \* thread -> [name, id] of the public method it is in, id
             \* being its conv_id
  todo,      \* thread -> the ids of a local collection of its call:
             \* conversation_files still to process in a rebuild, `results`
             \* in a search
  pre,       \* _file_mtimes when the lock was last acquired
  glimpses,  \* values of _file_mtimes read by threads not holding the lock
             \* since then, while another thread held it
  unlinked   \* the ids whose file a delete_conversation unlinked and no
             \* one has written since

thrVars == <<lock, tpc, call, todo, pre, glimpses, unlinked>>

\* What the threads do not touch: the history of the sequential model.
seqVars == <<pc, pending, op, prev, rebuilds, result, extChange, goneCached>>

NoCallThread == [name |-> "", id |-> ""]

NewCall(name, id) == [name |-> name, id |-> id]

\* The conversations the calls of the threads and the other process are
\* about.
ThreadIds == {"c1"}

\* The query of the searches: it matches the title of ThreadBody.
ThreadQuery == CHOOSE q \in Queries : Len(q) = 2

\* The calls that start with _refresh_if_needed and then read the records.
Readers == {"list", "search"}

ThrInit ==
  /\ lock = NoThread
  /\ tpc = [t \in Threads |-> "idle"]
  /\ call = [t \in Threads |-> NoCallThread]
  /\ todo = [t \in Threads |-> {}]
  /\ pre = EmptyMap
  /\ glimpses = {}
  /\ unlinked = {}

At(t, p) == tpc[t] = p

Goto(t, p) == tpc' = [tpc EXCEPT ![t] = p]

\* The call of t returns.
Return(t) ==
  /\ tpc' = [tpc EXCEPT ![t] = "idle"]
  /\ call' = [call EXCEPT ![t] = NoCallThread]

\* The call of t ends with an exception, which its caller gets.
Raise(t) ==
  /\ tpc' = [tpc EXCEPT ![t] = "raised"]
  /\ UNCHANGED call

Enter(t, name, id, p) ==
  /\ At(t, "idle")
  /\ call' = [call EXCEPT ![t] = NewCall(name, id)]
  /\ Goto(t, p)

\* Mutant of CanAcquire: the lock is taken whether held or not.
CanAcquireHeld(t) == TRUE

\* threading.Lock.acquire: blocks while the lock is held (not reentrant).
CanAcquire(t) == lock = NoThread

\* `with self._lock:` entered by t, which goes on at p.
Acquire(t, p) ==
  /\ CanAcquire(t)
  /\ lock' = t
  /\ pre' = file_mtimes
  /\ glimpses' = {}
  /\ Goto(t, p)

\* Mutant of Release: the block is left and the lock stays held.
ReleaseKept(t) ==
  /\ lock' = lock
  /\ pre' = file_mtimes
  /\ glimpses' = glimpses \ {pre, file_mtimes}

\* The `with` block left by t. Of the reads made meanwhile, those that saw
\* neither the map as it was before the block nor as the block leaves it
\* are kept.
Release(t) ==
  /\ lock' = (IF lock = t THEN NoThread ELSE lock)
  /\ pre' = file_mtimes
  /\ glimpses' = glimpses \ {pre, file_mtimes}

\* What a write of the sidecar that raises an OSError leaves: the file as
\* it was (it could not be opened), or cut short (the disk is full).
FailedWrites == { sidecar, <<Garbled>> }

\* _save_cache_file as the last statement of a `with` block of t: the
\* write succeeds and the block is left, t going on at p ("idle": the call
\* returns); or the write raises and `except Exception` catches it.
SaveCacheFile(t, p) ==
  \/ /\ sidecar' = <<CurrentState>>
     /\ Release(t)
     /\ IF p = "idle" THEN Return(t) ELSE Goto(t, p) /\ UNCHANGED call
  \/ /\ sidecar' \in FailedWrites
     /\ Goto(t, "save_warning")
     /\ UNCHANGED <<lock, call, pre, glimpses>>

\* t reads _file_mtimes outside the lock.
Glimpse(t) ==
  glimpses' = IF lock \notin {NoThread, t}
              THEN glimpses \cup {file_mtimes} ELSE glimpses

\* The statements between `with self._lock:` and the end of the block, in
\* _build_cache_from_files, update_conversation_metadata, remove_conversation.
MutatorSections ==
  {"clear_metadata", "clear_mtimes", "glob", "fill", "fill_stat", "stamp",
   "save", "update", "update_stat", "update_save", "remove", "remove_save",
   "save_warning"}

InCritical(t) == tpc[t] \in MutatorSections

\* invalidate_cache() is called.
CallInvalidate ==
  \E t \in Threads :
    /\ Enter(t, "invalidate", "", "build")
    /\ UNCHANGED <<now, files, metadata_cache, file_mtimes, last_scan_time,
                   sidecar, lock, todo, pre, glimpses>>

\* _build_cache_from_files: `with self._lock:`.
BuildAcquire ==
  \E t \in Threads :
    /\ At(t, "build")
    /\ Acquire(t, "clear_metadata")
    /\ UNCHANGED <<now, files, metadata_cache, file_mtimes, last_scan_time,
                   sidecar, call, todo>>

\* self._metadata_cache.clear()
BuildClearMetadata ==
  \E t \in Threads :
    /\ At(t, "clear_metadata")
    /\ metadata_cache' = EmptyMap
    /\ Goto(t, "clear_mtimes")
    /\ UNCHANGED <<now, files, file_mtimes, last_scan_time, sidecar, lock,
                   call, todo, pre, glimpses>>

\* self._file_mtimes.clear()
BuildClearMtimes ==
  \E t \in Threads :
    /\ At(t, "clear_mtimes")
    /\ file_mtimes' = EmptyMap
    /\ Goto(t, "glob")
    /\ UNCHANGED <<now, files, metadata_cache, last_scan_time, sidecar, lock,
                   call, todo, pre, glimpses>>

\* conversation_files = list(self.storage_dir.glob("*.json"))
BuildGlob ==
  \E t \in Threads :
    /\ At(t, "glob")
    /\ todo' = [todo EXCEPT ![t] = DOMAIN files]
    /\ Goto(t, "fill")
    /\ UNCHANGED <<now, files, metadata_cache, file_mtimes, last_scan_time,
                   sidecar, lock, call, pre, glimpses>>

\* One round of the loop over conversation_files, first half: the file is
\* read and its record stored, if it is still there and its metadata can be
\* extracted; otherwise the loop goes on.
BuildFillRecord ==
  \E t \in Threads :
    /\ At(t, "fill")
    /\ \E id \in todo[t] :
         /\ todo' = [todo EXCEPT ![t] = @ \ {id}]
         /\ call' = [call EXCEPT ![t].id = id]
         /\ IF id \in Scanned
            THEN /\ metadata_cache' =
                      DictSet(metadata_cache, id, ExtractMetadata(files[id])[1])
                 /\ Goto(t, "fill_stat")
            ELSE UNCHANGED <<metadata_cache, tpc>>
    /\ UNCHANGED <<now, files, file_mtimes, last_scan_time, sidecar, lock, pre,
                   glimpses>>

\* Second half: file_path.stat().st_mtime is stored; if the file is gone
\* by now, stat raises, `except Exception` logs it and the loop goes on.
BuildFillStat ==
  \E t \in Threads :
    /\ At(t, "fill_stat")
    /\ file_mtimes' = IF call[t].id \in DOMAIN files
                      THEN DictSet(file_mtimes, call[t].id, files[call[t].id].mtime)
                      ELSE file_mtimes
    /\ Goto(t, "fill")
    /\ UNCHANGED <<now, files, metadata_cache, last_scan_time, sidecar, lock,
                   call, todo, pre, glimpses>>

\* The loop is over.
BuildFilled ==
  \E t \in Threads :
    /\ At(t, "fill")
    /\ todo[t] = {}
    /\ Goto(t, "stamp")
    /\ UNCHANGED <<now, files, metadata_cache, file_mtimes, last_scan_time,
                   sidecar, lock, call, todo, pre, glimpses>>

\* self._last_scan_time = time.time()
BuildStamp ==
  \E t \in Threads :
    /\ At(t, "stamp")
    /\ last_scan_time' = now
    /\ Goto(t, "save")
    /\ UNCHANGED <<now, files, metadata_cache, file_mtimes, sidecar, lock,
                   call, todo, pre, glimpses>>

\* self._save_cache_file(), and the block is left. A read call goes on to
\* read the values.
BuildSave ==
  \E t \in Threads :
    /\ At(t, "save")
    /\ SaveCacheFile(t, IF call[t].name \in Readers THEN "read" ELSE "idle")
    /\ UNCHANGED <<now, files, metadata_cache, file_mtimes, last_scan_time,
                   todo>>

\* update_conversation_metadata(id, metadata): `with self._lock:`.
CallUpdate ==
  \E t \in Threads, id \in ThreadIds :
    /\ At(t, "idle")
    /\ call' = [call EXCEPT ![t] = NewCall("update", id)]
    /\ Acquire(t, "update")
    /\ UNCHANGED <<now, files, metadata_cache, file_mtimes, last_scan_time,
                   sidecar, todo>>

\* The record is stored; file_path.exists() decides whether the mtime
\* is read.
UpdateRecord ==
  \E t \in Threads :
    /\ At(t, "update")
    /\ metadata_cache' =
         DictSet(metadata_cache, call[t].id, MakeRecord(call[t].id, ThreadBody))
    /\ Goto(t, IF call[t].id \in DOMAIN files THEN "update_stat"
               ELSE "update_save")
    /\ UNCHANGED <<now, files, file_mtimes, last_scan_time, sidecar, lock,
                   call, todo, pre, glimpses>>

\* file_path.stat().st_mtime is stored; if the file is gone by now, stat
\* raises FileNotFoundError, the `with` block is left and the call ends.
UpdateStat ==
  \E t \in Threads :
    /\ At(t, "update_stat")
    /\ IF call[t].id \in DOMAIN files
       THEN /\ file_mtimes' =
                 DictSet(file_mtimes, call[t].id, files[call[t].id].mtime)
            /\ Goto(t, "update_save")
            /\ UNCHANGED <<lock, call, pre, glimpses>>
       ELSE /\ Release(t)
            /\ Raise(t)
            /\ UNCHANGED file_mtimes
    /\ UNCHANGED <<now, files, metadata_cache, last_scan_time, sidecar, todo>>

UpdateSave ==
  \E t \in Threads :
    /\ At(t, "update_save")
    /\ SaveCacheFile(t, "idle")
    /\ UNCHANGED <<now, files, metadata_cache, file_mtimes, last_scan_time,
                   todo>>

\* remove_conversation(id): `with self._lock:`.
CallRemove ==
  \E t \in Threads, id \in ThreadIds :
    /\ At(t, "idle")
    /\ call' = [call EXCEPT ![t] = NewCall("remove", id)]
    /\ Acquire(t, "remove")
    /\ UNCHANGED <<now, files, metadata_cache, file_mtimes, last_scan_time,
                   sidecar, todo>>

\* Both pops.
RemoveMaps ==
  \E t \in Threads :
    /\ At(t, "remove")
    /\ Install(Removed(call[t].id))
    /\ Goto(t, "remove_save")
    /\ UNCHANGED <<now, files, sidecar, lock, call, todo, pre, glimpses>>

RemoveSave ==
  \E t \in Threads :
    /\ At(t, "remove_save")
    /\ SaveCacheFile(t, "idle")
    /\ UNCHANGED <<now, files, metadata_cache, file_mtimes, last_scan_time,
                   todo>>

\* logger.warning("Failed to save cache file"): _save_cache_file returns,
\* the `with` block is left, and the call goes on as after a write that
\* succeeded.
SaveWarned ==
  \E t \in Threads :
    /\ At(t, "save_warning")
    /\ Release(t)
    /\ IF call[t].name \in Readers
       THEN Goto(t, "read") /\ UNCHANGED call
       ELSE Return(t)
    /\ UNCHANGED <<now, files, metadata_cache, file_mtimes, last_scan_time,
                   sidecar, todo>>

\* The caller of t has the exception.
Raised ==
  \E t \in Threads :
    /\ At(t, "raised")
    /\ Return(t)
    /\ UNCHANGED <<now, files, metadata_cache, file_mtimes, last_scan_time,
                   sidecar, lock, todo, pre, glimpses>>

\* get_all_metadata() is called: _refresh_if_needed compares the clock
\* with _last_scan_time.
CallList ==
  \E t \in Threads :
    /\ Enter(t, "list", "", IF RefreshDue THEN "check_cached" ELSE "read")
    /\ UNCHANGED <<now, files, metadata_cache, file_mtimes, last_scan_time,
                   sidecar, lock, todo, pre, glimpses>>

\* _is_cache_stale, first loop, outside the lock: the cached ids against
\* the directory.
CheckCached ==
  \E t \in Threads :
    /\ At(t, "check_cached")
    /\ Glimpse(t)
    /\ Goto(t, IF \E id \in DOMAIN file_mtimes :
                    IF id \in DOMAIN files
                    THEN files[id].mtime > file_mtimes[id] ELSE TRUE
               THEN "build" ELSE "check_new")
    /\ UNCHANGED <<now, files, metadata_cache, file_mtimes, last_scan_time,
                   sidecar, lock, call, todo, pre>>

\* _is_cache_stale, second loop, outside the lock: the directory listing
\* against the cached ids.
CheckNew ==
  \E t \in Threads :
    /\ At(t, "check_new")
    /\ Glimpse(t)
    /\ Goto(t, IF \E id \in DOMAIN files : id \notin DOMAIN file_mtimes
               THEN "build" ELSE "read")
    /\ UNCHANGED <<now, files, metadata_cache, file_mtimes, last_scan_time,
                   sidecar, lock, call, todo, pre>>

\* get_all_metadata: `with self._lock:`.
ReadAcquire ==
  \E t \in Threads :
    /\ At(t, "read")
    /\ Acquire(t, "reading")
    /\ UNCHANGED <<now, files, metadata_cache, file_mtimes, last_scan_time,
                   sidecar, call, todo>>

\* get_all_metadata: the values are copied and sorted, and the block is
\* left. search_metadata: the matching records are copied to `results` and
\* the block is left.
ReadValues ==
  \E t \in Threads :
    /\ At(t, "reading")
    /\ Release(t)
    /\ IF call[t].name = "search"
       THEN /\ todo' = [todo EXCEPT ![t] =
                         { r.id : r \in Hits(ThreadQuery, CurrentState) }]
            /\ Goto(t, "sort")
            /\ UNCHANGED call
       ELSE /\ Return(t)
            /\ UNCHANGED todo
    /\ UNCHANGED <<now, files, metadata_cache, file_mtimes, last_scan_time,
                   sidecar>>

\* search_metadata() is called.
CallSearch ==
  \E t \in Threads :
    /\ Enter(t, "search", "", IF RefreshDue THEN "check_cached" ELSE "read")
    /\ UNCHANGED <<now, files, metadata_cache, file_mtimes, last_scan_time,
                   sidecar, lock, todo, pre, glimpses>>

\* results.sort(key=sort_key), outside the lock: strptime raises ValueError
\* on a timestamp without a fractional part.
SearchSort ==
  \E t \in Threads :
    /\ At(t, "sort")
    /\ IF SortKeyRaises({ MakeRecord(id, ThreadBody) : id \in todo[t] })
       THEN Raise(t)
       ELSE Return(t)
    /\ todo' = [todo EXCEPT ![t] = {}]
    /\ UNCHANGED <<now, files, metadata_cache, file_mtimes, last_scan_time,
                   sidecar, lock, pre, glimpses>>

\* Another process writes <id>.json.
ThrFileWritten ==
  \E id \in ThreadIds :
    /\ now > CachedMtime(id)
    /\ id \in DOMAIN files => now > files[id].mtime
    /\ files' = DictSet(files, id,
                  [kind |-> "doc", rec |-> MakeRecord(id, ThreadBody),
                   mtime |-> now])
    /\ unlinked' = unlinked \ {id}
    /\ UNCHANGED <<now, metadata_cache, file_mtimes, last_scan_time, sidecar,
                   lock, tpc, call, todo, pre, glimpses>>

\* Another process deletes <id>.json.
ThrFileDeleted ==
  \E id \in ThreadIds \cap DOMAIN files :
    /\ files' = DictPop(files, id)
    /\ UNCHANGED <<now, metadata_cache, file_mtimes, last_scan_time, sidecar,
                   lock, tpc, call, todo, pre, glimpses>>

\* save_conversation(conversation) is called by t: conversation.save
\* writes <id>.json.
MgrSaveWrite ==
  \E t \in Threads, id \in ThreadIds :
    /\ At(t, "idle")
    /\ files' = DictSet(files, id,
                  [kind |-> "doc", rec |-> MakeRecord(id, ThreadBody),
                   mtime |-> now])
    /\ call' = [call EXCEPT ![t] = NewCall("save", id)]
    /\ Goto(t, "save_update")
    /\ unlinked' = unlinked \ {id}
    /\ UNCHANGED <<now, metadata_cache, file_mtimes, last_scan_time, sidecar,
                   lock, todo, pre, glimpses>>

\* save_conversation goes on: update_conversation_metadata(id, metadata)
\* enters its `with self._lock:`.
MgrSaveUpdate ==
  \E t \in Threads :
    /\ At(t, "save_update")
    /\ Acquire(t, "update")
    /\ UNCHANGED <<now, files, metadata_cache, file_mtimes, last_scan_time,
                   sidecar, call, todo, unlinked>>

\* delete_conversation(id) is called by t: the file is unlinked if it
\* exists.
MgrDeleteUnlink ==
  \E t \in Threads, id \in ThreadIds :
    /\ At(t, "idle")
    /\ files' = DictPop(files, id)
    /\ call' = [call EXCEPT ![t] = NewCall("delete", id)]
    /\ Goto(t, "delete_remove")
    /\ unlinked' = unlinked \cup {id}
    /\ UNCHANGED <<now, metadata_cache, file_mtimes, last_scan_time, sidecar,
                   lock, todo, pre, glimpses>>

\* delete_conversation goes on: remove_conversation(id) enters its
\* `with self._lock:`.
MgrDeleteRemove ==
  \E t \in Threads :
    /\ At(t, "delete_remove")
    /\ Acquire(t, "remove")
    /\ UNCHANGED <<now, files, metadata_cache, file_mtimes, last_scan_time,
                   sidecar, call, todo, unlinked>>

\* More than a refresh interval passes.
ThrTick ==
  /\ now + RefreshInterval + 1 <= MaxTime
  /\ now' = now + RefreshInterval + 1
  /\ UNCHANGED <<files, metadata_cache, file_mtimes, last_scan_time, sidecar,
                 thrVars>>

(***************************************************************************)
(* The configuration manager under threads. One ConfigManager is shared by *)
(* two threads; load_config runs statement by statement. The manager has   *)
(* no lock: a thread is delayed by nothing.                                *)
(***************************************************************************)
VARIABLES
  lc,          \* thread -> its load_config call: [at (the statement it is
               \* about to run), profile, reload (the arguments), config
               \* (the local variable), layers, valid (what
               \* validate_config_structure will find)]
  config_for   \* the profile argument of the call that assigned _config

cfgThrVars == <<lc, config_for>>

CfgThreads == {1, 2}

NoLoad ==
  [at |-> "idle", profile |-> "default", reload |-> FALSE,
   config |-> EmptyTree,
   layers |-> <<EmptyTree, EmptyTree, EmptyTree, EmptyTree>>, valid |-> TRUE]

CfgThrInit ==
  /\ lc = [t \in CfgThreads |-> NoLoad]
  /\ config_for = "default"

\* load_config(p, reload) is called by t.
CallLoadConfig ==
  \E t \in CfgThreads, p \in Profiles, reload \in BOOLEAN :
    /\ lc[t].at = "idle"
    /\ lc' = [lc EXCEPT ![t] = [NoLoad EXCEPT !.at = "check", !.profile = p,
                                              !.reload = reload]]
    /\ UNCHANGED <<now, cfgVars, config_for>>

\* reload_config() is called by t: load_config(profile=self._profile,
\* reload=True).
CallReloadConfig ==
  \E t \in CfgThreads :
    /\ lc[t].at = "idle"
    /\ lc' = [lc EXCEPT ![t] = [NoLoad EXCEPT !.at = "set_profile",
                                              !.profile = profile,
                                              !.reload = TRUE]]
    /\ UNCHANGED <<now, cfgVars, config_for>>

\* Lines 54-57: the cached tree is returned, or the call goes on.
LoadCheck ==
  \E t \in CfgThreads :
    /\ lc[t].at = "check"
    /\ lc' = [lc EXCEPT ![t] =
               IF ServedFromCache(lc[t].profile, lc[t].reload)
               THEN NoLoad ELSE [@ EXCEPT !.at = "set_profile"]]
    /\ UNCHANGED <<now, cfgVars, config_for>>

\* Line 59: self._profile = profile.
LoadSetProfile ==
  \E t \in CfgThreads :
    /\ lc[t].at = "set_profile"
    /\ profile' = lc[t].profile
    /\ lc' = [lc EXCEPT ![t].at = "layers"]
    /\ UNCHANGED <<now, environ, cfg_files, config, loaded, file_cache,
                   profile_cache, cache_valid, last_env_check, env_cache,
                   cop, got, layers, missed, config_for>>

\* Lines 62-72: the layers are loaded through the caches and merged into
\* the local variable config.
LoadLayers ==
  \E t \in CfgThreads :
    /\ lc[t].at = "layers"
    /\ \E r \in {Resolved(lc[t].profile)} :
         /\ file_cache' = r.fc
         /\ profile_cache' = r.pcache
         /\ env_cache' = <<r.env>>
         /\ last_env_check' = IF EnvRefreshDue THEN now ELSE last_env_check
         /\ lc' = [lc EXCEPT ![t].at = "validate", ![t].config = r.config,
                             ![t].layers = r.layers, ![t].valid = r.valid]
    /\ UNCHANGED <<now, environ, cfg_files, config, profile, loaded,
                   cache_valid, cop, got, layers, missed, config_for>>

\* Lines 75-81: validate_config_structure raises, or the local tree
\* becomes the configuration and is returned.
LoadAssign ==
  \E t \in CfgThreads :
    /\ lc[t].at = "validate"
    /\ IF lc[t].valid
       THEN /\ config' = lc[t].config
            /\ loaded' = TRUE
            /\ cache_valid' = TRUE
            /\ layers' = lc[t].layers
            /\ config_for' = lc[t].profile
       ELSE UNCHANGED <<config, loaded, cache_valid, layers, config_for>>
    /\ lc' = [lc EXCEPT ![t] = NoLoad]
    /\ UNCHANGED <<now, environ, cfg_files, profile, file_cache,
                   profile_cache, last_env_check, env_cache, cop, got,
                   missed>>

\* A configuration file is written while the threads run.
CfgThrFileWritten ==
  /\ WriteConfigFile
  /\ UNCHANGED cfgThrVars

(***************************************************************************)
(* The functions of the two components that depend on their arguments      *)
(* alone, applied to arguments drawn from bounded sets: fn names the       *)
(* function applied last, arg its arguments and out what it returned.      *)
(***************************************************************************)
VARIABLES fn, arg, out

fnVars == <<fn, arg, out>>

FnInit ==
  /\ fn = "none"
  /\ arg = <<>>
  /\ out = <<>>

\* The environments get_config_overrides is applied to: DMR_DEBUG and
\* DMR_MAX_TOKENS, each unset or set to one of the texts.
EnvDictKeys == { "debug", "max_tokens" }

EnvDicts == UNION { [ks -> EnvTexts] : ks \in SUBSET EnvDictKeys }

\* EnvironmentHandler._convert_env_value(value, target_type).
ApplyConvertEnvValue ==
  \E text \in EnvTexts, target_type \in TargetTypes :
    /\ fn' = "convert_env_value"
    /\ arg' = [value |-> text, target_type |-> target_type]
    /\ out' = ConvertEnvValue(text, target_type)

\* EnvironmentHandler.get_config_overrides() in the environment env.
ApplyGetConfigOverrides ==
  \E env \in EnvDicts :
    /\ fn' = "get_config_overrides"
    /\ arg' = env
    /\ out' = GetConfigOverrides(env)

\* The trees, paths and defaults safe_get_nested is applied to.
GetTrees ==
  { EmptyTree, BuiltinDefaults, ProfileApiOff,
    MergeConfigs(BuiltinDefaults, DefaultFile400),
    MergeConfigs(BuiltinDefaults, ProfileLoggingOff) }

GetAnyPaths ==
  { PApi, PBaseUrl, PMaxTokens, PEnvMaxTokens, PLogging, PLogLevel,
    <<"logging", "level", "name">>, <<"ui">> }

GetDefaults == { NoneV, IntV(0) }

\* safe_get_nested(data, path, default).
ApplySafeGetNested ==
  \E data \in GetTrees, path \in GetAnyPaths, default \in GetDefaults :
    /\ fn' = "safe_get_nested"
    /\ arg' = [data |-> data, path |-> path, default |-> default]
    /\ out' = SafeGetNested(data, path, default)

\* The trees merge_configs is applied to, as base and as override.
MergeTrees ==
  { EmptyTree, BuiltinDefaults, DefaultFile400, Profile300, ProfileLoggingOff,
    ProfileApiOff, GetConfigOverrides(EnvText) }

\* merge_configs(base_config, override_config).
ApplyMergeConfigs ==
  \E base_config \in MergeTrees, override_config \in MergeTrees :
    /\ fn' = "merge_configs"
    /\ arg' = [base |-> base_config, override |-> override_config]
    /\ out' = MergeConfigs(base_config, override_config)

\* The records search_metadata is applied to: two titled Python written in
\* the same second, one in a later second, and two titled Java and tagged
\* Python, the later one written in a whole second.
SearchBodies ==
  { [title |-> TitlePython, description |-> <<>>, tags |-> <<>>,
     updated_at |-> [sec |-> 1, usec |-> 1]],
    [title |-> TitlePython, description |-> <<>>, tags |-> <<>>,
     updated_at |-> [sec |-> 1, usec |-> 2]],
    [title |-> TitlePython, description |-> <<>>, tags |-> <<>>,
     updated_at |-> [sec |-> MaxSec, usec |-> 1]],
    [title |-> TitleJava, description |-> <<>>, tags |-> <<TitlePython>>,
     updated_at |-> [sec |-> 1, usec |-> 1]],
    [title |-> TitleJava, description |-> <<>>, tags |-> <<TitlePython>>,
     updated_at |-> [sec |-> MaxSec, usec |-> 0]] }

SearchCaches ==
  UNION { { [id \in ids |-> MakeRecord(id, b[id])] : b \in [ids -> SearchBodies] }
          : ids \in SUBSET Ids }

\* search_metadata(query) over a cache that needs no refresh.
ApplySearchMetadata ==
  \E q \in Queries, m \in SearchCaches :
    /\ fn' = "search_metadata"
    /\ arg' = [query |-> q, metadata |-> m]
    /\ out' \in SearchResults(q, [metadata |-> m, mtimes |-> EmptyMap,
                                  last_scan_time |-> 0])

\* Both components as constructed: ConversationManager() over an empty
\* directory with no sidecar, and a new ConfigManager.
Init ==
  /\ CfgInit
  /\ now = 0
  /\ files = EmptyMap
  /\ metadata_cache = EmptyMap
  /\ file_mtimes = EmptyMap
  /\ last_scan_time = 0
  /\ sidecar = << [metadata |-> EmptyMap, mtimes |-> EmptyMap, last_scan_time |-> 0] >>
  /\ pc = "idle"
  /\ pending = <<>>
  /\ op = [name |-> "init", id |-> "", q |-> <<>>, check |-> "", at |-> 0]
  /\ prev = "other"
  /\ rebuilds = 1
  /\ result = NoResult
  /\ extChange = 0
  /\ goneCached = {}
  /\ ThrInit
  /\ FnInit
  /\ CfgThrInit

\* The index cache runs; the configuration manager is left alone.
Next ==
  \/ Tick /\ UNCHANGED <<cfgVars, thrVars, fnVars, cfgThrVars>>
  \/ ExternalWrite /\ UNCHANGED <<cfgVars, thrVars, fnVars, cfgThrVars>>
  \/ ExternalDelete /\ UNCHANGED <<cfgVars, thrVars, fnVars, cfgThrVars>>
  \/ ExternalDeleteSidecar /\ UNCHANGED <<cfgVars, thrVars, fnVars, cfgThrVars>>
  \/ ExternalGarbleSidecar /\ UNCHANGED <<cfgVars, thrVars, fnVars, cfgThrVars>>
  \/ SaveWrite /\ UNCHANGED <<cfgVars, thrVars, fnVars, cfgThrVars>>
  \/ SaveIndex /\ UNCHANGED <<cfgVars, thrVars, fnVars, cfgThrVars>>
  \/ DeleteConversation /\ UNCHANGED <<cfgVars, thrVars, fnVars, cfgThrVars>>
  \/ ListConversations /\ UNCHANGED <<cfgVars, thrVars, fnVars, cfgThrVars>>
  \/ SearchConversations /\ UNCHANGED <<cfgVars, thrVars, fnVars, cfgThrVars>>
  \/ InvalidateCache /\ UNCHANGED <<cfgVars, thrVars, fnVars, cfgThrVars>>
  \/ Restart /\ UNCHANGED <<cfgVars, thrVars, fnVars, cfgThrVars>>

vars == <<cacheVars, cfgVars, thrVars, fnVars, cfgThrVars>>

Spec == Init /\ [][Next]_vars

\* The index-cache variables other than the clock.
indexVars ==
  <<files, metadata_cache, file_mtimes, last_scan_time, sidecar, pc,
    pending, op, prev, rebuilds, result, extChange, goneCached>>

\* The configuration manager runs; the index cache is left alone.
NextCfg ==
  \/ CfgTick /\ UNCHANGED <<indexVars, thrVars, fnVars, cfgThrVars>>
  \/ SetEnv /\ UNCHANGED <<indexVars, thrVars, fnVars, cfgThrVars>>
  \/ UnsetEnv /\ UNCHANGED <<indexVars, thrVars, fnVars, cfgThrVars>>
  \/ WriteConfigFile /\ UNCHANGED <<indexVars, thrVars, fnVars, cfgThrVars>>
  \/ DeleteConfigFile /\ UNCHANGED <<indexVars, thrVars, fnVars, cfgThrVars>>
  \/ LoadConfig /\ UNCHANGED <<indexVars, thrVars, fnVars, cfgThrVars>>
  \/ ReloadConfig /\ UNCHANGED <<indexVars, thrVars, fnVars, cfgThrVars>>
  \/ Get /\ UNCHANGED <<indexVars, thrVars, fnVars, cfgThrVars>>
  \/ InvalidateConfigCache /\ UNCHANGED <<indexVars, thrVars, fnVars, cfgThrVars>>
  \/ NewConfigManager /\ UNCHANGED <<indexVars, thrVars, fnVars, cfgThrVars>>

SpecCfg == Init /\ [][NextCfg]_vars

\* ConfigManager.__init__ has run and no method since.
FreshManager ==
  /\ config = EmptyTree
  /\ profile = "default"
  /\ ~loaded
  /\ file_cache = EmptyMap
  /\ profile_cache = EmptyMap
  /\ cache_valid
  /\ last_env_check = 0
  /\ env_cache = <<>>

\* A configuration file is written before the manager is first used.
PrepareFile == FreshManager /\ WriteConfigFile

\* A variable is set before the manager is first used.
PrepareEnv == FreshManager /\ SetEnv

\* Profiles are loaded one after another on a manager, and on new managers,
\* over files and an environment that do not change once a manager is in
\* use.
NextSwitch ==
  \/ PrepareFile /\ UNCHANGED <<indexVars, thrVars, fnVars, cfgThrVars>>
  \/ PrepareEnv /\ UNCHANGED <<indexVars, thrVars, fnVars, cfgThrVars>>
  \/ LoadConfig /\ UNCHANGED <<indexVars, thrVars, fnVars, cfgThrVars>>
  \/ NewConfigManager /\ UNCHANGED <<indexVars, thrVars, fnVars, cfgThrVars>>

SpecSwitch == Init /\ [][NextSwitch]_vars

\* The threads of the index cache run; the configuration manager and the
\* history of the sequential model are left alone.
NextThr ==
  \/ CallInvalidate /\ UNCHANGED <<seqVars, cfgVars, fnVars, cfgThrVars, unlinked>>
  \/ BuildAcquire /\ UNCHANGED <<seqVars, cfgVars, fnVars, cfgThrVars, unlinked>>
  \/ BuildClearMetadata /\ UNCHANGED <<seqVars, cfgVars, fnVars, cfgThrVars, unlinked>>
  \/ BuildClearMtimes /\ UNCHANGED <<seqVars, cfgVars, fnVars, cfgThrVars, unlinked>>
  \/ BuildGlob /\ UNCHANGED <<seqVars, cfgVars, fnVars, cfgThrVars, unlinked>>
  \/ BuildFillRecord /\ UNCHANGED <<seqVars, cfgVars, fnVars, cfgThrVars, unlinked>>
  \/ BuildFillStat /\ UNCHANGED <<seqVars, cfgVars, fnVars, cfgThrVars, unlinked>>
  \/ BuildFilled /\ UNCHANGED <<seqVars, cfgVars, fnVars, cfgThrVars, unlinked>>
  \/ BuildStamp /\ UNCHANGED <<seqVars, cfgVars, fnVars, cfgThrVars, unlinked>>
  \/ BuildSave /\ UNCHANGED <<seqVars, cfgVars, fnVars, cfgThrVars, unlinked>>
  \/ CallUpdate /\ UNCHANGED <<seqVars, cfgVars, fnVars, cfgThrVars, unlinked>>
  \/ UpdateRecord /\ UNCHANGED <<seqVars, cfgVars, fnVars, cfgThrVars, unlinked>>
  \/ UpdateStat /\ UNCHANGED <<seqVars, cfgVars, fnVars, cfgThrVars, unlinked>>
  \/ UpdateSave /\ UNCHANGED <<seqVars, cfgVars, fnVars, cfgThrVars, unlinked>>
  \/ CallRemove /\ UNCHANGED <<seqVars, cfgVars, fnVars, cfgThrVars, unlinked>>
  \/ RemoveMaps /\ UNCHANGED <<seqVars, cfgVars, fnVars, cfgThrVars, unlinked>>
  \/ RemoveSave /\ UNCHANGED <<seqVars, cfgVars, fnVars, cfgThrVars, unlinked>>
  \/ SaveWarned /\ UNCHANGED <<seqVars, cfgVars, fnVars, cfgThrVars, unlinked>>
  \/ Raised /\ UNCHANGED <<seqVars, cfgVars, fnVars, cfgThrVars, unlinked>>
  \/ CallList /\ UNCHANGED <<seqVars, cfgVars, fnVars, cfgThrVars, unlinked>>
  \/ CheckCached /\ UNCHANGED <<seqVars, cfgVars, fnVars, cfgThrVars, unlinked>>
  \/ CheckNew /\ UNCHANGED <<seqVars, cfgVars, fnVars, cfgThrVars, unlinked>>
  \/ ReadAcquire /\ UNCHANGED <<seqVars, cfgVars, fnVars, cfgThrVars, unlinked>>
  \/ ReadValues /\ UNCHANGED <<seqVars, cfgVars, fnVars, cfgThrVars, unlinked>>
  \/ CallSearch /\ UNCHANGED <<seqVars, cfgVars, fnVars, cfgThrVars, unlinked>>
  \/ SearchSort /\ UNCHANGED <<seqVars, cfgVars, fnVars, cfgThrVars, unlinked>>
  \/ ThrFileWritten /\ UNCHANGED <<seqVars, cfgVars, fnVars, cfgThrVars>>
  \/ ThrFileDeleted /\ UNCHANGED <<seqVars, cfgVars, fnVars, cfgThrVars, unlinked>>
  \/ ThrTick /\ UNCHANGED <<seqVars, cfgVars, fnVars, cfgThrVars>>

SpecThr == Init /\ [][NextThr]_vars

\* A step of thread t inside a call: it goes on to another statement, or
\* to the next file of its loop.
ThreadStep(t) ==
  /\ NextThr
  /\ tpc[t] # "idle"
  /\ tpc'[t] # tpc[t] \/ todo'[t] # todo[t]

\* The sidecar cannot be written (a full disk, a directory without write
\* permission): every _save_cache_file ends in its `except` branch.
SidecarUnwritable == sidecar' = sidecar

NextThrFair == NextThr /\ SidecarUnwritable

\* The threads as the interpreter schedules them, over a sidecar that
\* cannot be written: a thread that can go on does so at some time, and a
\* thread waiting for the lock gets it at some time if it is free again and
\* again. Nothing makes a caller call, another process write, or time pass.
SpecThrFair ==
  Init /\ [][NextThrFair]_vars /\ \A t \in Threads : SF_vars(ThreadStep(t))

\* The threads call the ConversationManager: save_conversation,
\* delete_conversation, list_conversations. No other process touches the
\* directory.
NextMgr ==
  \/ MgrSaveWrite /\ UNCHANGED <<seqVars, cfgVars, fnVars, cfgThrVars>>
  \/ MgrSaveUpdate /\ UNCHANGED <<seqVars, cfgVars, fnVars, cfgThrVars>>
  \/ UpdateRecord /\ UNCHANGED <<seqVars, cfgVars, fnVars, cfgThrVars, unlinked>>
  \/ UpdateStat /\ UNCHANGED <<seqVars, cfgVars, fnVars, cfgThrVars, unlinked>>
  \/ UpdateSave /\ UNCHANGED <<seqVars, cfgVars, fnVars, cfgThrVars, unlinked>>
  \/ MgrDeleteUnlink /\ UNCHANGED <<seqVars, cfgVars, fnVars, cfgThrVars>>
  \/ MgrDeleteRemove /\ UNCHANGED <<seqVars, cfgVars, fnVars, cfgThrVars>>
  \/ RemoveMaps /\ UNCHANGED <<seqVars, cfgVars, fnVars, cfgThrVars, unlinked>>
  \/ RemoveSave /\ UNCHANGED <<seqVars, cfgVars, fnVars, cfgThrVars, unlinked>>
  \/ SaveWarned /\ UNCHANGED <<seqVars, cfgVars, fnVars, cfgThrVars, unlinked>>
  \/ Raised /\ UNCHANGED <<seqVars, cfgVars, fnVars, cfgThrVars, unlinked>>
  \/ CallList /\ UNCHANGED <<seqVars, cfgVars, fnVars, cfgThrVars, unlinked>>
  \/ CheckCached /\ UNCHANGED <<seqVars, cfgVars, fnVars, cfgThrVars, unlinked>>
  \/ CheckNew /\ UNCHANGED <<seqVars, cfgVars, fnVars, cfgThrVars, unlinked>>
  \/ BuildAcquire /\ UNCHANGED <<seqVars, cfgVars, fnVars, cfgThrVars, unlinked>>
  \/ BuildClearMetadata /\ UNCHANGED <<seqVars, cfgVars, fnVars, cfgThrVars, unlinked>>
  \/ BuildClearMtimes /\ UNCHANGED <<seqVars, cfgVars, fnVars, cfgThrVars, unlinked>>
  \/ BuildGlob /\ UNCHANGED <<seqVars, cfgVars, fnVars, cfgThrVars, unlinked>>
  \/ BuildFillRecord /\ UNCHANGED <<seqVars, cfgVars, fnVars, cfgThrVars, unlinked>>
  \/ BuildFillStat /\ UNCHANGED <<seqVars, cfgVars, fnVars, cfgThrVars, unlinked>>
  \/ BuildFilled /\ UNCHANGED <<seqVars, cfgVars, fnVars, cfgThrVars, unlinked>>
  \/ BuildStamp /\ UNCHANGED <<seqVars, cfgVars, fnVars, cfgThrVars, unlinked>>
  \/ BuildSave /\ UNCHANGED <<seqVars, cfgVars, fnVars, cfgThrVars, unlinked>>
  \/ ReadAcquire /\ UNCHANGED <<seqVars, cfgVars, fnVars, cfgThrVars, unlinked>>
  \/ ReadValues /\ UNCHANGED <<seqVars, cfgVars, fnVars, cfgThrVars, unlinked>>
  \/ ThrTick /\ UNCHANGED <<seqVars, cfgVars, fnVars, cfgThrVars>>

SpecMgr == Init /\ [][NextMgr]_vars

\* The functions are applied; both components are left alone.
NextFn ==
  \/ ApplyConvertEnvValue /\ UNCHANGED <<cacheVars, cfgVars, thrVars, cfgThrVars>>
  \/ ApplyGetConfigOverrides /\ UNCHANGED <<cacheVars, cfgVars, thrVars, cfgThrVars>>
  \/ ApplySafeGetNested /\ UNCHANGED <<cacheVars, cfgVars, thrVars, cfgThrVars>>
  \/ ApplyMergeConfigs /\ UNCHANGED <<cacheVars, cfgVars, thrVars, cfgThrVars>>
  \/ ApplySearchMetadata /\ UNCHANGED <<cacheVars, cfgVars, thrVars, cfgThrVars>>

SpecFn == Init /\ [][NextFn]_vars

\* The threads of the configuration manager run; the index cache is left
\* alone.
NextCfgThr ==
  \/ CallLoadConfig /\ UNCHANGED <<indexVars, thrVars, fnVars>>
  \/ CallReloadConfig /\ UNCHANGED <<indexVars, thrVars, fnVars>>
  \/ LoadCheck /\ UNCHANGED <<indexVars, thrVars, fnVars>>
  \/ LoadSetProfile /\ UNCHANGED <<indexVars, thrVars, fnVars>>
  \/ LoadLayers /\ UNCHANGED <<indexVars, thrVars, fnVars>>
  \/ LoadAssign /\ UNCHANGED <<indexVars, thrVars, fnVars>>
  \/ CfgThrFileWritten /\ UNCHANGED <<indexVars, thrVars, fnVars>>

SpecCfgThr == Init /\ [][NextCfgThr]_vars

(***************************************************************************)
(* What the properties compare the cache with: the directory itself.       *)
(***************************************************************************)
\* The ids of the documents on disk that parse, and their records.
ValidIds == { id \in DOMAIN files : files[id].kind = "doc" }

CorruptIds == { id \in DOMAIN files : files[id].kind = "corrupt" }

DirectoryRecords == { files[id].rec : id \in ValidIds }

ResultRecords == Range(result.list)

ResultIds == { r.id : r \in ResultRecords }

IsRead == op.name \in {"list", "search"}

\* What a read call that sees exactly the directory returns.
Expected ==
  IF op.name = "list" THEN DirectoryRecords
  ELSE { r \in DirectoryRecords : Matches(op.q, r) }

\* The record the last update call wrote, when its file still holds it.
WrittenOnDisk ==
  /\ pending # <<>>
  /\ pending[1].id \in ValidIds
  /\ files[pending[1].id].rec = pending[1]

(***************************************************************************)
(* Properties of the index cache.                                          *)
(***************************************************************************)
\* C1 (as claimed): record_write(id, r) followed immediately by
\* list_metadata() returns a list that contains r, and neither call runs a
\* rebuild.
C1_WriteVisibleNoRebuild ==
  /\ op.name = "update" => rebuilds = 0
  /\ (op.name = "list" /\ prev = "update" /\ WrittenOnDisk)
       => (pending[1] \in ResultRecords /\ rebuilds = 0)

\* C1 (amended): record_write(id, r) followed immediately by list_metadata()
\* returns a list that contains r; record_write never rebuilds, and
\* list_metadata() rebuilds, once, exactly when more than the refresh
\* interval has passed since last_scan_time and the directory has drifted
\* from the cached mtimes.
C1_WriteVisible ==
  /\ op.name = "update" => rebuilds = 0
  /\ (op.name = "list" /\ prev = "update" /\ WrittenOnDisk)
       => /\ pending[1] \in ResultRecords
          /\ rebuilds = IF op.check \in {"mtime", "drift"} THEN 1 ELSE 0

C1_Witness ==
  /\ op.name = "list" /\ prev = "update" /\ WrittenOnDisk
  /\ pending[1] \in ResultRecords
  /\ rebuilds = 1

\* C2: every id present in records (_metadata_cache) has an entry in mtimes
\* (_file_mtimes).
C2_RecordsHaveMtimes == DOMAIN metadata_cache \subseteq DOMAIN file_mtimes

\* C3: a list/search call made more than one refresh interval after the last
\* change by another process returns the records a full rebuild of the
\* directory would produce, whatever this process updated or removed.
C3_BoundedStaleness ==
  (IsRead /\ result.ok /\ now - extChange > RefreshInterval)
    => ResultRecords = Expected

\* C4: when a cached document's mtime has advanced on disk, the list call
\* made after the refresh interval has elapsed runs exactly one rebuild (and
\* leaves no cached mtime behind the disk); a list call made before the
\* interval has elapsed runs none.
C4_MtimeDetection ==
  op.name = "list" =>
    /\ op.check = "mtime" =>
         (rebuilds = 1 /\ last_scan_time = now /\ ~MtimeAdvanced)
    /\ op.check = "throttled" => rebuilds = 0

C4_Witness == op.name = "list" /\ op.check = "mtime" /\ rebuilds = 1

\* C5 (as claimed): the first list/search call after invalidate() performs
\* a full rebuild.
C5_NextAccessRebuilds == (IsRead /\ prev = "invalidate") => rebuilds = 1

\* C5 (amended): invalidate() itself performs the full rebuild, at once and
\* whatever the throttle and the staleness check would say; the first
\* list/search call after it answers with the directory as invalidate() saw
\* it and rebuilds again only when the throttle has elapsed and the
\* staleness check finds drift.
C5_InvalidateRebuildsAtOnce ==
  /\ op.name = "invalidate" =>
       /\ rebuilds = 1
       /\ last_scan_time = op.at
       /\ Values(metadata_cache) = DirectoryRecords
  /\ (IsRead /\ prev = "invalidate") =>
       /\ result.ok => ResultRecords = Expected
       /\ op.check \in {"throttled", "fresh"} => rebuilds = 0

C5_Witness ==
  /\ IsRead /\ prev = "invalidate" /\ result.ok
  /\ ResultRecords # {}
  /\ rebuilds = 0

\* C6: after a cached id's file was deleted on disk, invalidate() followed
\* by list_metadata() yields a result without that id, and the id has no
\* record and no mtime left, also within the refresh interval.
C6_DeletionPropagates ==
  (op.name = "list" /\ prev = "invalidate") =>
    \A id \in goneCached :
      /\ id \notin ResultIds
      /\ id \notin DOMAIN metadata_cache
      /\ id \notin DOMAIN file_mtimes

C6_Witness ==
  /\ op.name = "list" /\ prev = "invalidate"
  /\ goneCached # {}
  /\ op.check = "throttled"
  /\ ResultRecords # {}

\* C7: with n parseable documents and k corrupt ones in the directory, a
\* rebuild leaves exactly the n valid ids in records and in mtimes, and
\* list_metadata() returns normally with exactly the n valid records; no
\* corrupt id has a record or an mtime.
C7_PartialFailure ==
  /\ rebuilds = 1 =>
       /\ DOMAIN metadata_cache = ValidIds
       /\ DOMAIN file_mtimes = ValidIds
       /\ Values(metadata_cache) = DirectoryRecords
  /\ op.name = "list" => result.ok
  /\ (op.name = "list" /\ (rebuilds = 1 \/ prev = "invalidate")) =>
       /\ ResultRecords = DirectoryRecords
       /\ Len(result.list) = Cardinality(ValidIds)
       /\ ResultIds \cap CorruptIds = {}

C7_Witness ==
  /\ op.name = "list" /\ rebuilds = 1
  /\ CorruptIds # {}
  /\ ValidIds # {}
  /\ Len(result.list) = Cardinality(ValidIds)

(***************************************************************************)
(* What the configuration properties compare the merged tree with.         *)
(***************************************************************************)
\* The paths of the trees of the model.
AllPaths ==
  UNION { DOMAIN t : t \in {BuiltinDefaults, GetConfigOverrides(EnvText)}
                           \cup DefaultFileTrees \cup ProfileTrees }

\* The layers of ls (lowest precedence first) that define path p.
Defining(ls, p) == { i \in 1..Len(ls) : p \in DOMAIN ls[i] }

\* The highest-precedence layer of ls that defines p.
Highest(ls, p) ==
  CHOOSE i \in Defining(ls, p) : \A j \in Defining(ls, p) : j <= i

\* A layer above the highest one defining p holds a scalar on the way to p.
CutOff(ls, p) ==
  \E i \in 1..Len(ls), q \in Prefixes(p) :
    /\ i > Highest(ls, p)
    /\ q \in DOMAIN ls[i]
    /\ ls[i][q].t # "map"

\* The last call was a load that returned a tree.
LoadReturned == cop.name \in {"load", "reload"} /\ cop.ok

\* C8 (as stated): in the tree a load returns, every path that some layer
\* defines holds the value of the highest-precedence layer defining it
\* (built-in defaults < default file < profile file < environment), the
\* layers being those the load merged.
C8_HighestLayerWins ==
  LoadReturned =>
    \A p \in AllPaths :
      Defining(layers, p) # {} =>
        /\ p \in DOMAIN config
        /\ config[p] = layers[Highest(layers, p)][p]

\* C8 (amended): in the tree a load returns, a path that some layer defines
\* holds the value of the highest-precedence layer defining it, unless a
\* layer of still higher precedence holds a scalar at a proper prefix of the
\* path: then the path is absent from the tree.
C8_HighestLayerWinsUnlessCutOff ==
  LoadReturned =>
    \A p \in AllPaths :
      Defining(layers, p) # {} =>
        IF CutOff(layers, p)
        THEN p \notin DOMAIN config
        ELSE /\ p \in DOMAIN config
             /\ config[p] = layers[Highest(layers, p)][p]

\* C8 witness: a load of profile dev merged a default file, a profile file
\* and an environment override; the environment's max_tokens won over the
\* default file's and the profile's over the default file's and built-in.
C8_Witness ==
  /\ LoadReturned
  /\ profile = "dev"
  /\ layers = <<BuiltinDefaults, DefaultFile400, Profile300,
                GetConfigOverrides(EnvText)>>
  /\ config[PEnvMaxTokens] = StrV("200")
  /\ config[PMaxTokens] = IntV(300)

\* C9: with built-in max_tokens 500, a default file setting 400, a profile
\* file setting 300 and DMR_MAX_TOKENS=200 merged by a load of the profile,
\* get("api.models.defaults.max_tokens") returns the number 200.
C9_EnvMaxTokensWins ==
  ( /\ cop.name = "get"
    /\ cop.ok
    /\ cop.path = PMaxTokens
    /\ layers = <<BuiltinDefaults, DefaultFile400, Profile300,
                  GetConfigOverrides(EnvText)>> )
  => got = IntV(200)

\* C10: when an environment override that was in effect has been removed
\* from the environment, the tree a reload returns holds at the override's
\* path what the lower layers give (nothing, if none defines the path),
\* however recently the environment was scanned.
C10_ReloadDropsRemovedOverride ==
  (cop.name = "reload" /\ cop.ok) =>
    \A k \in cop.dropped :
      LET p == EnvMapping[k]
          below == <<layers[1], layers[2], layers[3]>>
      IN  IF Defining(below, p) = {}
          THEN p \notin DOMAIN config
          ELSE /\ p \in DOMAIN config
               /\ config[p] = below[Highest(below, p)][p]

(***************************************************************************)
(* Loads against the files and the environment as they are at the call:    *)
(* cop is the record of a call only until something else happens.          *)
(***************************************************************************)
\* The last thing that happened is a load_config or reload_config call.
JustLoaded == cop.name \in {"load", "reload"}

\* File f is on disk and does not parse.
Unparseable(f) == f \in DOMAIN cfg_files /\ cfg_files[f].kind = "bad"

\* The files a load of profile p is to read.
RequestedFiles(p) ==
  {DefaultFile} \cup (IF p = "default" THEN {} ELSE Range(ProfileFiles(p)))

\* What the first candidate file of profile p on disk holds.
CurrentProfileTree(p) ==
  LET first == CHOOSE i \in ProfileFilesOnDisk(p) :
                 \A j \in ProfileFilesOnDisk(p) : i <= j
  IN  cfg_files[ProfileFiles(p)[first]].tree

\* C11: load(profile) for a non-default profile with no file in any
\* profiles directory raises instead of returning a tree.
C11_MissingProfileRaises ==
  (JustLoaded /\ profile # "default" /\ ProfileFilesOnDisk(profile) = {})
  => ~cop.ok

\* C12: load(profile) raises when the default file or the profile's file
\* is on disk and does not parse.
C12_ParseErrorRaises ==
  (JustLoaded /\ \E f \in RequestedFiles(profile) : Unparseable(f))
  => ~cop.ok

\* C13: every load(profile) call whose merged tree fails validation (no api
\* section, api not a mapping, no api.base_url) raises.
C13_InvalidTreeRaises == (JustLoaded /\ cop.invalid) => ~cop.ok

\* C14: a load(p) after an earlier load(p) found no file for p, with no
\* invalidation in between, looks for no profile file on disk.
C14_NegativeCacheNoLookup == (JustLoaded /\ cop.repeat) => cop.probes = 0

\* C14 witness: profile dev was loaded again after a load found no file.
C14_Witness ==
  JustLoaded /\ cop.ok /\ cop.repeat /\ profile = "dev" /\ "dev" \in missed

\* C16: a load(profile) or reload_config() that returns while the profile
\* has a file on disk returns a tree built from that file's contents.
C16_ProfileFileFresh ==
  ( /\ JustLoaded
    /\ cop.ok
    /\ profile # "default"
    /\ ProfileFilesOnDisk(profile) # {} )
  => layers[3] = CurrentProfileTree(profile)

\* C17: a load(profile) with reload=false made more than the TTL after the
\* environment was last scanned returns a tree with the overrides of the
\* environment as it is.
C17_EnvRescannedAfterTtl ==
  (cop.name = "load" /\ cop.ok /\ cop.envdue)
  => layers[4] = GetConfigOverrides(environ)

\* C18: a load(profile) with reload=false that returns while a well-formed
\* default file is on disk returns a tree built from its current contents.
C18_DefaultFileFresh ==
  ( /\ cop.name = "load"
    /\ cop.ok
    /\ DefaultFile \in DOMAIN cfg_files
    /\ cfg_files[DefaultFile].kind = "yaml" )
  => layers[2] = cfg_files[DefaultFile].tree

\* C15: the full staleness check that reads run is executed at most once per
\* refresh interval: a read that runs it does not directly follow, with no
\* time passed, another read that ran it.
C15_CheckOncePerInterval ==
  ~(IsRead /\ op.check # "throttled" /\ prev = "check")

(***************************************************************************)
(* The index cache under threads.                                          *)
(***************************************************************************)
\* C19: rebuild, update and remove mutate the maps and write the sidecar
\* holding the one lock: a thread inside one of these blocks holds it, and
\* no two threads are inside such blocks at the same time.
C19_MutationUnderOneMutex ==
  /\ \A t \in Threads : InCritical(t) => lock = t
  /\ \A t, u \in Threads : (InCritical(t) /\ InCritical(u)) => t = u

\* A thread is inside a rebuild and the other waits to enter one, an update
\* or a remove having run before.
C19_Witness ==
  \E t, u \in Threads :
    /\ tpc[t] = "fill" /\ lock = t
    /\ tpc[u] = "build"
    /\ metadata_cache # EmptyMap

\* C20: a read of _file_mtimes made by a thread outside the lock while
\* another thread was inside a rebuild, update or remove saw the map as it
\* was before that operation or as it is after it.
C20_ReadersSeeWholeMaps ==
  lock = NoThread => \A m \in glimpses : m \in {pre, file_mtimes}

(***************************************************************************)
(* The index cache, call by call (continued).                              *)
(***************************************************************************)
\* C24: invalidate() called again after an invalidate(), the directory left
\* as it was in between (time may pass), leaves the records and the mtimes
\* as the first call left them.
C24_IdempotentRebuild ==
  [][ (op.name = "invalidate" /\ op'.name = "invalidate" /\ files' = files)
      => (metadata_cache' = metadata_cache /\ file_mtimes' = file_mtimes) ]_vars

\* A second invalidate() in a row over a directory with a document that
\* parses and one that does not.
C24_Witness ==
  /\ op.name = "invalidate" /\ prev = "invalidate"
  /\ metadata_cache # EmptyMap
  /\ CorruptIds # {}

\* C25: search_metadata(q) returns exactly the cached records whose title,
\* description or a tag contains q case-insensitively, each once.
C25_SearchReturnsMatches ==
  op.name = "search" =>
    /\ result.ok
    /\ ResultRecords = Hits(op.q, CurrentState)
    /\ Len(result.list) = Cardinality(ResultRecords)

\* C26: construction adopts the records and mtimes of a sidecar that
\* exists, parses and is not stale against the directory, without a
\* rebuild; with the sidecar absent, unreadable or stale the maps are those
\* of a full rebuild of the directory. (A step that leaves the clock alone
\* and ends with op.name = "init" is a construction.)
C26_SidecarColdStart ==
  [][ (op'.name = "init" /\ now' = now) =>
        IF sidecar # <<>> /\ sidecar[1] # Garbled
           /\ ~IsCacheStale(sidecar[1].mtimes)
        THEN /\ rebuilds' = 0
             /\ metadata_cache' = sidecar[1].metadata
             /\ file_mtimes' = sidecar[1].mtimes
        ELSE /\ rebuilds' = 1
             /\ metadata_cache' = [id \in ValidIds |-> files[id].rec]
             /\ file_mtimes' = [id \in ValidIds |-> files[id].mtime] ]_vars

\* A construction that adopted a sidecar with records, no file parsed.
C26_Witness ==
  /\ op.name = "init"
  /\ rebuilds = 0
  /\ metadata_cache # EmptyMap
  /\ sidecar # <<>> /\ sidecar[1] # Garbled
  /\ metadata_cache = sidecar[1].metadata

(***************************************************************************)
(* Properties of the functions.                                            *)
(***************************************************************************)
\* Every key of path down to the i-th is there, each but the last a mapping.
Walkable(data, path) ==
  \A i \in 1..Len(path) :
    /\ SubSeq(path, 1, i) \in DOMAIN data
    /\ i < Len(path) => data[SubSeq(path, 1, i)].t = "map"

\* C23: get(path, default) returns the value stored at the path when every
\* segment exists, and default when a segment is missing or a value on the
\* way is not a mapping.
C23_GetOrDefault ==
  fn = "safe_get_nested" =>
    out = IF Walkable(arg.data, arg.path)
          THEN arg.data[arg.path] ELSE arg.default

\* A value on the way is a scalar (logging: false) and a default other than
\* None is returned.
C23_Witness ==
  /\ fn = "safe_get_nested"
  /\ arg.path = PLogLevel
  /\ PLogging \in DOMAIN arg.data /\ arg.data[PLogging].t # "map"
  /\ arg.default = IntV(0)
  /\ out = IntV(0)

\* C28: in the list search_metadata returns, the records whose title
\* contains the query come before the others, and within each of the two
\* groups a record never comes before one with a later updated_at.
C28_SearchOrdering ==
  (fn = "search_metadata" /\ out.ok) =>
    \A i, j \in DOMAIN out.list :
      i < j =>
        /\ TitleMatch(arg.query, out.list[j]) => TitleMatch(arg.query, out.list[i])
        /\ TitleMatch(arg.query, out.list[i]) = TitleMatch(arg.query, out.list[j])
             => ~IsoLess(out.list[i].updated_at, out.list[j].updated_at)

\* C29: in the overrides derived from the environment, DMR_DEBUG is the
\* boolean true iff its text is one of true/1/yes/on in any case, and
\* DMR_MAX_TOKENS is the integer its text denotes, 0 if it denotes none.
C29_TypedEnvValues ==
  fn = "get_config_overrides" =>
    /\ "debug" \in DOMAIN arg =>
         out[PDebug] = BoolV(LowerText(arg["debug"]) \in TrueTexts)
    /\ "max_tokens" \in DOMAIN arg =>
         out[PEnvMaxTokens] =
           IntV(IF IntOf(arg["max_tokens"]) # <<>>
                THEN IntOf(arg["max_tokens"])[1] ELSE 0)

C22_IoErrorReachesCaller ==
  [][ \A t \in Threads :
        (tpc[t] = "save_warning" /\ tpc'[t] # "save_warning")
          => tpc'[t] = "raised" ]_vars

\* C27: when the loop of a rebuild is over, every recorded id has an mtime
\* entry.
C27_RebuildLeavesMtimes ==
  \A t \in Threads :
    tpc[t] \in {"stamp", "save"} => DOMAIN metadata_cache \subseteq DOMAIN file_mtimes

(***************************************************************************)
(* The configuration manager under threads.                                *)
(***************************************************************************)
\* C21: once every load_config and reload_config call of the two threads
\* has returned, the current tree is not the merge computed for another
\* profile than the current one (where the two merges differ and the one
\* for the current profile is valid).
C21_ProfileAndTreeBelong ==
  (/\ \A t \in CfgThreads : lc[t].at = "idle"
   /\ loaded
   /\ Resolved(profile).valid)
    => ~ /\ config_for # profile
         /\ config = Resolved(config_for).config
         /\ config # Resolved(profile).config

(***************************************************************************)
(* What a call leaves of the configuration manager.                        *)
(***************************************************************************)
\* C31: a load_config or reload_config call that raises leaves the current
\* profile name and the current tree as they were before the call.
C31_FailedLoadLeavesState ==
  [][ (cop'.name \in {"load", "reload"} /\ ~cop'.ok)
        => (profile' = profile /\ config' = config) ]_vars

\* C32: right after a rebuild (by invalidate_cache, on construction or in a
\* refresh), the directory being as the rebuild listed it, the staleness
\* check finds the cache fresh.
C32_RebuildLeavesFresh ==
  rebuilds > 0 => ~IsCacheStale(file_mtimes)

\* The cache is stale as the staleness check is described: a cached id has
\* no file or a file newer than its cached mtime, or a file of the
\* directory has an id that is not cached.
StaleAsDescribed ==
  \/ \E id \in DOMAIN file_mtimes :
       \/ id \notin DOMAIN files
       \/ files[id].mtime > file_mtimes[id]
  \/ \E id \in DOMAIN files : id \notin DOMAIN file_mtimes

\* C33: a read that runs the staleness check (more than the refresh
\* interval after the last scan) rebuilds exactly when the cache is stale
\* as described, and a check that finds the cache fresh leaves the records,
\* the mtimes, last_scan_time and the sidecar as they were.
C33_StalenessCheck ==
  [][ (op'.name \in {"list", "search"} /\ now' = now
       /\ now - last_scan_time > RefreshInterval)
        => /\ (rebuilds' = 1) <=> StaleAsDescribed
           /\ ~StaleAsDescribed =>
                UNCHANGED <<metadata_cache, file_mtimes, last_scan_time,
                            sidecar>> ]_vars

\* A read ran the check, found a file newer than its cached mtime and
\* rebuilt.
C33_Witness ==
  op.name = "list" /\ op.check = "mtime" /\ rebuilds = 1
    /\ metadata_cache # EmptyMap

(***************************************************************************)
(* The deep merge, key by key.                                             *)
(***************************************************************************)
\* The keys of a dict.
TopKeys(tree) == { p[1] : p \in DOMAIN tree }

\* tree[k], a dict: the paths below k, without k.
SubTree(tree, k) ==
  [q \in { Tail(p) : p \in { r \in DOMAIN tree : Len(r) > 1 /\ r[1] = k } }
     |-> tree[<<k>> \o q]]

\* tree[k] with all below it, under key k.
Entry(tree, k) ==
  [p \in { r \in DOMAIN tree : r[1] = k } |-> tree[p]]

\* The dict sub under key k.
Under(k, sub) ==
  [p \in {<<k>>} \cup { <<k>> \o q : q \in DOMAIN sub } |->
     IF p = <<k>> THEN MapV ELSE sub[Tail(p)]]

\* The entries of a family of dicts with disjoint keys, as one dict.
Joined(parts) ==
  [p \in UNION { DOMAIN t : t \in parts } |->
     (CHOOSE t \in parts : p \in DOMAIN t)[p]]

\* The merge as described: for each key, the merge of the two values where
\* both are mappings, the override's value where the override has the key,
\* the base's value where only the base has it.
RECURSIVE DeepMerge(_, _)
DeepMerge(base, override) ==
  Joined({ IF IsDict(base, <<k>>) /\ IsDict(override, <<k>>)
           THEN Under(k, DeepMerge(SubTree(base, k), SubTree(override, k)))
           ELSE IF k \in TopKeys(override) THEN Entry(override, k)
           ELSE Entry(base, k)
           : k \in TopKeys(base) \cup TopKeys(override) })

\* C34: merge_configs(base, override) is the deep merge of the two trees.
C34_DeepMerge ==
  fn = "merge_configs" => out = DeepMerge(arg.base, arg.override)

\* A mapping of the base was replaced whole by a scalar of the override,
\* and a key only the base has was kept.
C34_Witness ==
  /\ fn = "merge_configs"
  /\ arg.base = BuiltinDefaults
  /\ arg.override = ProfileApiOff
  /\ out[PApi] = StrV("off")
  /\ PBaseUrl \notin DOMAIN out
  /\ out[PLogLevel] = StrV("INFO")

\* C35: update(id, record) is a local patch: afterwards the cache holds the
\* record and the file's current mtime for id, every other entry and
\* last_scan_time are as before, and the sidecar holds the resulting state.
C35_UpdateIsLocalPatch ==
  [][ op'.name = "update" =>
        \E id \in {op'.id} :
          /\ id \in DOMAIN metadata_cache' /\ metadata_cache'[id] = pending[1]
          /\ id \in DOMAIN files
          /\ id \in DOMAIN file_mtimes' /\ file_mtimes'[id] = files[id].mtime
          /\ \A o \in Ids \ {id} :
               /\ o \in DOMAIN metadata_cache' <=> o \in DOMAIN metadata_cache
               /\ o \in DOMAIN metadata_cache =>
                    metadata_cache'[o] = metadata_cache[o]
               /\ o \in DOMAIN file_mtimes' <=> o \in DOMAIN file_mtimes
               /\ o \in DOMAIN file_mtimes => file_mtimes'[o] = file_mtimes[o]
          /\ last_scan_time' = last_scan_time
          /\ sidecar' = <<[metadata |-> metadata_cache', mtimes |-> file_mtimes',
                           last_scan_time |-> last_scan_time']>> ]_vars

\* C36: once delete_conversation(id) has returned, a list or search call
\* finds no record of id to return, until a document of that id is written
\* again.
C36_DeletedStaysGone ==
  \A t \in Threads :
    (tpc[t] = "reading" /\ call[t].name \in Readers) =>
      \A id \in unlinked :
        (\A u \in Threads : call[u] # NewCall("delete", id)) =>
          id \notin DOMAIN metadata_cache

\* load_config(p) on a manager just constructed: the layers are read from
\* the files and the environment as they are.
FreshLoad(p) ==
  CHOOSE r \in
    UNION { { MergeLayers(d, pr, GetConfigOverrides(environ)) :
                pr \in {LoadProfileConfigCached(p, d.fc, EmptyMap)} } :
            d \in {LoadDefaultConfigCached(EmptyMap)} } : TRUE

\* C37: over unchanged files and environment, load(p) does what it does on
\* a fresh manager, whatever was loaded before: it returns the same tree, or
\* fails alike.
C37_SwitchHistoryIndependent ==
  cop.name \in {"load", "reload"} =>
    /\ cop.ok <=> FreshLoad(profile).valid
    /\ cop.ok => config = FreshLoad(profile).config

\* C38: a search_metadata call does not end with an exception, whatever
\* the updated_at of the records an update or a rebuild stored.
C38_SearchNeverRaises ==
  \A t \in Threads : call[t].name = "search" => tpc[t] # "raised"

\* C39: the call that follows invalidate_cache() answers from the sources
\* as they are: a get returns the value the files and the environment give
\* its path, a load returns the tree they give its profile.
C39_InvalidateForcesReread ==
  [][ cop.name = "invalidate" =>
        /\ (cop'.name = "get" /\ FreshLoad(profile').valid) =>
             got' = SafeGetNested(FreshLoad(profile').config, cop'.path, NoneV)
        /\ (cop'.name \in {"load", "reload"} /\ cop'.ok) =>
             config' = FreshLoad(profile').config ]_vars

=============================================================================
